---- MODULE Spec2Model ----
(***************************************************************************)
(* A model of the chatgpt-cli request pipeline.                            *)
(*                                                                         *)
(*   Spec      main()'s prompt mode (scripts/chatgpt.py) with the fast     *)
(*             path chatgpt_api_prompt (scripts/api_client.py) and the     *)
(*             automation path prompt_chatgpt.                             *)
(*   SpecWait  the polling loop wait_for_response (scripts/chatgpt.py).    *)
(*                                                                         *)
(* Python's None and an absent dict key (what dict.get returns for it) are *)
(* both written None.                                                      *)
(***************************************************************************)
EXTENDS Integers, Sequences, FiniteSets, TLC

None == "None"

(***************************************************************************)
(* State of one run of main() in prompt mode.                              *)
(***************************************************************************)
VARIABLES
    mode,               \* args.mode
    flags,              \* the browser-only command line options that are set
    pc,                 \* position of the run
    http,               \* the HTTP requests sent so far, in order
    apiCalls,           \* number of calls of chatgpt_api_prompt
    browserRuns,        \* number of calls of prompt_chatgpt
    browserLaunched,    \* number of browsers started (uc.start)
    promptSent,         \* the submissions of the prompt to the service, in order
    warned,             \* the "API mode requested but ..." warning was logged
    requirements_token, \* chatgpt_api_prompt's local
    proof_token,        \* chatgpt_api_prompt's local
    auth,               \* chatgpt_api_prompt's local: what get_access_token returned
    req,                \* chatgpt_api_prompt's local: what get_chat_requirements returned
    solverCalls,        \* number of calls of solve_proof_of_work
    convHeaders,        \* the sentinel headers carried by the conversation POST
    convStatus,         \* the status code the conversation POST was answered with
    convResp,           \* how the conversation POST was answered and ended
    waitReturn,         \* prompt_chatgpt's locals (response_text, thinking_time)
    apiResult,          \* what chatgpt_api_prompt returned
    browserResult,      \* what prompt_chatgpt returned
    result              \* main()'s result

(***************************************************************************)
(* State of one call of wait_for_response.                                 *)
(***************************************************************************)
VARIABLES
    w_pc,               \* "idle", "polling" or "returned"
    last_text,
    stable_count,
    thinking_time,
    elapsed,            \* time.time() - start_time, in seconds
    ticks,              \* loop iterations begun, counted up to MaxTicks
    w_ret,              \* the returned pair <<text, thinking_time>>
    w_exit,             \* which return statement was taken
    tickText,           \* response_text sampled by the latest iteration
    tickGen,            \* is_generating sampled by the latest iteration
    prevTickText,       \* response_text sampled by the iteration before it
    stableRun,          \* consecutive latest iterations that sampled the same
                        \* non-empty text as their predecessor with generation off
    tickPhrase          \* which phrases page_text held in the latest iteration

(***************************************************************************)
(* prompt_chatgpt_api (api_client.py): the conversation request and the    *)
(* reading of its event stream.                                            *)
(***************************************************************************)
VARIABLES
    s_pc,               \* "idle", "request", "reading" or "returned"
    s_status,           \* resp.status_code, 0 before the response has begun
    s_lines,            \* the lines aiter_lines() has yielded so far, in order
    response_text,      \* prompt_chatgpt_api's local
    result_conversation_id, \* prompt_chatgpt_api's local
    api_thinking_time,  \* prompt_chatgpt_api's local thinking_time
    conversation_id,    \* prompt_chatgpt_api's parameter
    s_end,              \* how the request ended
    s_result            \* what prompt_chatgpt_api returned

(***************************************************************************)
(* State of one call of solve_proof_of_work (api_client.py).               *)
(***************************************************************************)
VARIABLES
    p_pc,               \* "idle", "start", "loop", "returned" or "raised"
    p_difficulty,       \* the parameter difficulty: a string, as its characters
    digestOf,           \* hashlib.sha3_512(seed_bytes + .).digest() of this call
    target,             \* solve_proof_of_work's local
    p_i,                \* the loop variable i
    candidates,         \* the values of config_b64 hashed so far, in order
    pow_token           \* what solve_proof_of_work returned

(***************************************************************************)
(* The end of prompt_chatgpt_api: the result built from the text.          *)
(***************************************************************************)
VARIABLES
    t_pc,               \* "idle", "start" or "returned"
    t_prompt,           \* prompt_chatgpt_api's parameter prompt
    t_text,             \* response_text when the stream has been read
    t_success,          \* the returned dict's "success"
    t_tokens            \* the returned dict's "tokens"

(***************************************************************************)
(* The cookie set on its two ways out: build_cookie_header (api_client.py) *)
(* and the injection loop of _setup_authenticated_browser (chatgpt.py).    *)
(***************************************************************************)
VARIABLES
    c_pc,               \* "idle", "header", "inject" or "done"
    cookies,            \* the extracted cookie dicts, in order
    cookie_header,      \* what build_cookie_header returned
    c_k,                \* position of the injection loop in cookies
    set_cookies,        \* the cookies passed to cdp.storage.set_cookies, in order
    injected            \* _setup_authenticated_browser's local counter

(***************************************************************************)
(* Automation sessions running at the same time: each is one run of        *)
(* _setup_authenticated_browser up to browser.stop(); what they share is   *)
(* the data directory.                                                     *)
(***************************************************************************)
VARIABLES
    sess_pc,            \* per session: "idle", "profile", "clean", "start",
                        \* "running", "stopped" or "failed"
    session_id,         \* per session: the parameter session_id
    browser_profile,    \* per session: the local browser_profile
    locks,              \* per profile directory: who holds its Singleton* files
    removedLive         \* sessions whose lock files were removed while running

(***************************************************************************)
(* Two calls of chatgpt_api_prompt running as coroutines on one event      *)
(* loop.  A coroutine runs without interruption between two awaits; the    *)
(* awaits are the three requests and each line of the event stream.        *)
(***************************************************************************)
VARIABLES
    k_pc,               \* per request: "start", "auth", "req", "status",
                        \* "stream", "returned" or "raised"
    frame,              \* per invocation: the locals that live across awaits
    served,             \* per request: what the collaborators answered it
    k_sent,             \* per request: the headers of its conversation POST
    k_result            \* per request: what the call returned

(***************************************************************************)
(* wait_for_response seen at its evaluate calls: what each _cdp_eval call  *)
(* of an iteration gave back, and whether the body threw.                  *)
(***************************************************************************)
VARIABLES
    tickNulls,          \* the calls of the last iteration that returned None
    w_threw             \* the call at whose value the last body threw, or None

(***************************************************************************)
(* One call of prompt_chatgpt in its steps: _setup_authenticated_browser,  *)
(* then the UI steps inside try / except / finally.                        *)
(***************************************************************************)
VARIABLES
    o_pc,               \* the step the call is at, "returned" or "raised"
    o_flags,            \* which of files, screenshot, continue_chat are given
    o_browser,          \* "none", "running" or "stopped"
    o_steps,            \* the steps entered so far, in order
    o_failed,           \* the step that did not succeed, or None
    o_result            \* the dict returned

(***************************************************************************)
(* One call of _upload_attachments: the coroutine itself, the one-shot     *)
(* future it waits on, and the runs of _on_file_chooser, one for each      *)
(* FileChooserOpened event the page delivers.                              *)
(***************************************************************************)
VARIABLES
    u_pc,               \* where _upload_attachments is
    u_future,           \* chooser_future: "pending", "true", "false", "cancelled"
    u_hpc,              \* per event: where its run of _on_file_chooser is
    u_intercept,        \* the page intercepts file chooser dialogs
    u_registered,       \* _on_file_chooser is in page.handlers
    u_setOnDone,        \* set_result was called on a future that was done
    u_observed,         \* how many times the wait on the future ended
    u_handled,          \* the local handled: None before the wait ended
    u_cleanup,          \* how the disabling command of finally ended
    u_result            \* the dict returned

(***************************************************************************)
(* get_chatgpt_chat: the cleaning of one extracted message.  A text is the *)
(* sequence of its lines.                                                  *)
(***************************************************************************)
VARIABLES
    m_pc,               \* where the cleaning is
    m_role,             \* msg.get('role')
    m_raw,              \* msg.get('text') as extracted from the page
    m_text,             \* the text of the cleaned message
    m_again             \* the cleaning applied to the cleaned text

orchVars == <<mode, flags, pc, http, apiCalls, browserRuns, browserLaunched,
              promptSent, warned, requirements_token, proof_token, auth, req,
              solverCalls, convHeaders, convStatus, convResp, waitReturn,
              apiResult, browserResult, result>>

waitVars == <<w_pc, last_text, stable_count, thinking_time, elapsed, ticks,
              w_ret, w_exit, tickText, tickGen, prevTickText, stableRun,
              tickPhrase>>

streamVars == <<s_pc, s_status, s_lines, response_text, result_conversation_id,
                api_thinking_time, conversation_id, s_end, s_result>>

powVars == <<p_pc, p_difficulty, digestOf, target, p_i, candidates, pow_token>>

estVars == <<t_pc, t_prompt, t_text, t_success, t_tokens>>

cookieVars == <<c_pc, cookies, cookie_header, c_k, set_cookies, injected>>

sessVars == <<sess_pc, session_id, browser_profile, locks, removedLive>>

concVars == <<k_pc, frame, served, k_sent, k_result>>

nullVars == <<tickNulls, w_threw>>

opVars == <<o_pc, o_flags, o_browser, o_steps, o_failed, o_result>>

msgVars == <<m_pc, m_role, m_raw, m_text, m_again>>

upVars == <<u_pc, u_future, u_hpc, u_intercept, u_registered, u_setOnDone,
            u_observed, u_handled, u_cleanup, u_result>>

aux2Vars == <<concVars, nullVars, opVars, upVars, msgVars>>

auxVars == <<powVars, estVars, cookieVars, sessVars, aux2Vars>>

vars == <<orchVars, waitVars, streamVars, auxVars>>

(***************************************************************************)
(* Result dicts.  Every field keeps one type: an absent key (what dict.get *)
(* answers None for) is None for a string, 0 for a status code, FALSE for  *)
(* the rate_limited flag; an error is its message and the code inside it.  *)
(***************************************************************************)
Err(msg, code) == [msg |-> msg, code |-> code]

NoErr == Err(None, 0)

Result(success, error, status_code, rate_limited, transport, response) ==
    [success |-> success, error |-> error, status_code |-> status_code,
     rate_limited |-> rate_limited, mode |-> transport, response |-> response,
     cookies_used |-> FALSE]

Failure(error) == Result(FALSE, error, 0, FALSE, None, None)

\* The value of a result variable before the call it belongs to has returned.
NoResult == Failure(Err("(not returned)", 0))

(***************************************************************************)
(* main(): routing                                                         *)
(***************************************************************************)
Modes == {"api", "browser", "auto"}

BrowserOnlyFlags ==
    {"files", "continue_chat", "project", "temp_chat", "search", "no_search",
     "show_browser", "screenshot"}

\* Options of prompt mode that main() does not count as browser-only.
OtherFlags == {"new_chat"}

\* The combinations parser.error() lets through.
ValidFlags(f) ==
    /\ ~({"search", "no_search"} \subseteq f)
    /\ ~({"project", "continue_chat"} \subseteq f)
    /\ ~({"new_chat", "continue_chat"} \subseteq f)

browser_only(f) == f \cap BrowserOnlyFlags # {}

use_apiIgnoringFeatures(m, f) == m \in {"api", "auto"}

use_apiForcedInApiMode(m, f) == m = "api" \/ (m = "auto" /\ ~browser_only(f))

\* args.prompt is truthy in prompt mode: every other mode has returned.
use_api(m, f) == m \in {"api", "auto"} /\ ~browser_only(f)

WarnsApiIneligible(m, f) == m = "api" /\ browser_only(f)

FallsBackInEveryMode(res, m) == ~res.success

FallsBackNever(res, m) == FALSE

\* "Auto mode: fall back to browser if API fails"
FallsBack(res, m) == ~res.success /\ m = "auto"

MainAfterApiRetrying(res, m) ==
    IF ~res.success THEN "api_cookies" ELSE "done"

MainAfterApiNext(res, m) == IF FallsBack(res, m) THEN "browser" ELSE "done"

GET_SESSION == "GET /api/auth/session"
POST_REQUIREMENTS == "POST /backend-api/sentinel/chat-requirements"
POST_CONVERSATION == "POST /backend-api/conversation"

(***************************************************************************)
(* Fast path: what the server may answer, and what each component makes of *)
(* it.                                                                     *)
(***************************************************************************)
\* Session endpoint.  net: the request was answered, timed out, or failed
\* otherwise; body: JSON with an accessToken, JSON without one, or a body on
\* which resp.json() / data.get raises.
AuthResponses ==
    {[net |-> "ok", status |-> 200, body |-> b] :
        b \in {"token", "no_token", "bad_json"}}
    \cup {[net |-> "ok", status |-> st, body |-> "no_token"] : st \in {401, 500}}
    \cup {[net |-> n, status |-> None, body |-> None] : n \in {"timeout", "error"}}

get_access_token(resp) ==
    IF resp.net = "timeout" THEN
        [success |-> FALSE, error |-> Err("Auth session request timed out", 0),
         access_token |-> None]
    ELSE IF resp.net = "error" THEN
        [success |-> FALSE, error |-> Err("Auth error", 0), access_token |-> None]
    ELSE IF resp.status # 200 THEN
        [success |-> FALSE, error |-> Err("Auth session returned", resp.status),
         access_token |-> None]
    ELSE IF resp.body = "bad_json" THEN
        [success |-> FALSE, error |-> Err("Auth error", 0), access_token |-> None]
    ELSE IF resp.body = "no_token" THEN
        [success |-> FALSE, error |-> Err("No accessToken in session response", 0),
         access_token |-> None]
    ELSE
        [success |-> TRUE, error |-> NoErr, access_token |-> "jwt"]

\* The proofofwork value of a requirements response.  kind: "absent" (no such
\* key), "not_a_dict" (null or any non-object, on which .get raises), "empty"
\* ({}) or "dict".  seed and difficulty of a dict: "absent" (no such key),
\* "str" / "hex" (a usable string) or "bad" (null, a number, or for the
\* difficulty a string that is not hex).
Pow(kind, required, seed, difficulty) ==
    [kind |-> kind, required |-> required, seed |-> seed,
     difficulty |-> difficulty]

NoPow == Pow("absent", FALSE, "absent", "absent")

PowDescriptors ==
    {Pow("dict", r, sd, df) :
        r \in BOOLEAN, sd \in {"str", "absent", "bad"},
        df \in {"hex", "absent", "bad"}}

PowValues ==
    {NoPow, Pow("not_a_dict", FALSE, "absent", "absent"),
     Pow("empty", FALSE, "absent", "absent")} \cup PowDescriptors

\* Sentinel endpoint.  status 0: the request raised instead of being answered;
\* json: the body parses to an object.
RequirementsResponses ==
    {[status |-> 200, json |-> TRUE, token |-> t, proofofwork |-> pw] :
        t \in {"rt", None}, pw \in PowValues}
    \cup {[status |-> st, json |-> FALSE, token |-> None, proofofwork |-> NoPow] :
            st \in {0, 200, 401, 500}}

get_chat_requirements(resp) ==
    IF resp.status = 0 THEN
        [success |-> FALSE, status_code |-> 0, token |-> None,
         proofofwork |-> NoPow]
    ELSE IF resp.status # 200 THEN
        [success |-> FALSE, status_code |-> resp.status, token |-> None,
         proofofwork |-> NoPow]
    ELSE IF ~resp.json \/ resp.proofofwork.kind = "not_a_dict" THEN
        \* resp.json() or data.get('proofofwork', {}).get raises: except Exception
        [success |-> FALSE, status_code |-> 0, token |-> None,
         proofofwork |-> NoPow]
    ELSE
        [success |-> TRUE, status_code |-> 0, token |-> resp.token,
         proofofwork |-> resp.proofofwork]

\* What chatgpt_api_prompt's req is before get_chat_requirements has returned.
NoReq == [success |-> FALSE, status_code |-> 0, token |-> None,
          proofofwork |-> NoPow]

NoAuth == [success |-> FALSE, error |-> NoErr, access_token |-> None]

\* "if req.get("success") and req.get("token")"
HasRequirementsToken(r) == r.success /\ r.token # None

NeedsPowNever(r) == FALSE

\* "if pow_info and pow_info.get("required")", inside the branch above
NeedsPow(r) ==
    /\ HasRequirementsToken(r)
    /\ r.proofofwork.kind = "dict"
    /\ r.proofofwork.required

\* What the call of solve_proof_of_work, with the f-string logged before it,
\* can do for a descriptor: return a token, return None after the iteration
\* ceiling, or raise (seed[:16] on a non-string, bytes.fromhex on a non-hex
\* difficulty).  An absent difficulty is "", whose zero-length target every
\* digest prefix meets.
SolveOutcomes(pw) ==
    IF pw.seed = "bad" \/ pw.difficulty = "bad" THEN {"raise"}
    ELSE IF pw.difficulty = "absent" THEN {"gAAAAAB"}
    ELSE {"gAAAAAB", None}

\* 'seed[:16]' in the message built before the call raises on a seed that is
\* null or a number: solve_proof_of_work is then never called.
SolverReached(pw) == pw.seed # "bad"

AfterSolveUnsolvedFatal(o) ==
    IF o = "raise" THEN "crashed"
    ELSE IF o = None THEN "api_returned" ELSE "api_conv"

\* Where chatgpt_api_prompt goes after step 3b: an unsolved challenge is
\* logged ("pow: failed to solve, API mode may fail with 403") and step 4
\* follows; an exception leaves the function.
AfterSolve(o) == IF o = "raise" THEN "crashed" ELSE "api_conv"

\* The sentinel headers of the conversation request: "if requirements_token:
\* headers[...] = requirements_token" and "if proof_token: headers[...] =
\* proof_token"; None is a header that is not sent.
SentinelHeaders(rt, pt) == [requirements |-> rt, proof |-> pt]

\* convResp before the conversation request has been answered.
NoConvResp == [status |-> 0, text |-> "", end |-> None]

\* Conversation endpoint.  status 0: the request ended before any status
\* (timeout, connection failure, other exception).  For status 200, text is
\* what the frames read had accumulated in response_text when the stream
\* ended, and end is how it ended: "done" (the terminator, or the end of the
\* body), "error_frame", "timeout" or "exception".  For 403 and other
\* non-200 statuses, end "exception" and "timeout" are resp.aread() raising.
ResponseTexts == {"", "4"}

ConversationResponses ==
    {[status |-> 0, text |-> "", end |-> e] :
        e \in {"timeout", "connect_error", "exception"}}
    \cup {[status |-> st, text |-> "", end |-> "done"] : st \in {401, 429}}
    \cup {[status |-> st, text |-> "", end |-> e] :
            st \in {403, 500}, e \in {"done", "exception", "timeout"}}
    \cup {[status |-> 200, text |-> t, end |-> e] :
            t \in ResponseTexts,
            e \in {"done", "error_frame", "timeout", "exception"}}

ApiSuccess(text) == Result(TRUE, NoErr, 0, FALSE, "api", text)

RateLimitedUnflagged(resp) ==
    Result(FALSE, Err("Rate limit reached. Wait before trying again.", 0),
           429, FALSE, None, None)

RateLimited(resp) ==
    Result(FALSE, Err("Rate limit reached. Wait before trying again.", 0),
           429, TRUE, None, None)

prompt_chatgpt_apiWithoutOtherStatuses(resp) ==
    IF resp.end = "connect_error" THEN Failure(Err("Connection failed", 0))
    ELSE IF resp.end = "exception" THEN Failure(Err("API error", 0))
    ELSE IF resp.end = "timeout" /\ resp.text = "" THEN
        Failure(Err("Timeout waiting for response", 0))
    ELSE IF resp.status = 401 THEN
        Result(FALSE, Err("Authentication expired. Re-extract cookies.", 0),
               401, FALSE, None, None)
    ELSE IF resp.status = 403 THEN
        Result(FALSE, Err("Access denied (403)", 0), 403, FALSE, None, None)
    ELSE IF resp.status = 429 THEN RateLimited(resp)
    ELSE IF resp.end = "error_frame" THEN Failure(Err("ChatGPT error", 0))
    ELSE IF resp.text = "" THEN Failure(Err("Empty response from API", 0))
    ELSE ApiSuccess(resp.text)

prompt_chatgpt_apiDroppingPartialText(resp) ==
    IF resp.end = "connect_error" THEN Failure(Err("Connection failed", 0))
    ELSE IF resp.end = "exception" THEN Failure(Err("API error", 0))
    ELSE IF resp.end = "timeout" THEN
        Failure(Err("Timeout waiting for response", 0))
    ELSE IF resp.status = 401 THEN
        Result(FALSE, Err("Authentication expired. Re-extract cookies.", 0),
               401, FALSE, None, None)
    ELSE IF resp.status = 403 THEN
        Result(FALSE, Err("Access denied (403)", 0), 403, FALSE, None, None)
    ELSE IF resp.status = 429 THEN RateLimited(resp)
    ELSE IF resp.status \notin {0, 200} THEN
        Result(FALSE, Err("API error", resp.status), resp.status, FALSE, None, None)
    ELSE IF resp.end = "error_frame" THEN Failure(Err("ChatGPT error", 0))
    ELSE IF resp.text = "" THEN Failure(Err("Empty response from API", 0))
    ELSE ApiSuccess(resp.text)

prompt_chatgpt_apiWithoutEmptyCheck(resp) ==
    IF resp.end = "connect_error" THEN Failure(Err("Connection failed", 0))
    ELSE IF resp.end = "exception" THEN Failure(Err("API error", 0))
    ELSE IF resp.end = "timeout" /\ resp.text = "" THEN
        Failure(Err("Timeout waiting for response", 0))
    ELSE IF resp.status = 401 THEN
        Result(FALSE, Err("Authentication expired. Re-extract cookies.", 0),
               401, FALSE, None, None)
    ELSE IF resp.status = 403 THEN
        Result(FALSE, Err("Access denied (403)", 0), 403, FALSE, None, None)
    ELSE IF resp.status = 429 THEN RateLimited(resp)
    ELSE IF resp.status \notin {0, 200} THEN
        Result(FALSE, Err("API error", resp.status), resp.status, FALSE, None, None)
    ELSE IF resp.end = "error_frame" THEN Failure(Err("ChatGPT error", 0))
    ELSE ApiSuccess(resp.text)

\* The result of the conversation request, in the order in which the code
\* reaches its return statements: the except clauses for a request that
\* raised, the status checks, the error check of a frame, the empty text.
prompt_chatgpt_api(resp) ==
    IF resp.end = "connect_error" THEN Failure(Err("Connection failed", 0))
    ELSE IF resp.end = "exception" THEN Failure(Err("API error", 0))
    ELSE IF resp.end = "timeout" /\ resp.text = "" THEN
        Failure(Err("Timeout waiting for response", 0))
    ELSE IF resp.status = 401 THEN
        Result(FALSE, Err("Authentication expired. Re-extract cookies.", 0),
               401, FALSE, None, None)
    ELSE IF resp.status = 403 THEN
        Result(FALSE, Err("Access denied (403)", 0), 403, FALSE, None, None)
    ELSE IF resp.status = 429 THEN RateLimited(resp)
    ELSE IF resp.status \notin {0, 200} THEN
        Result(FALSE, Err("API error", resp.status), resp.status, FALSE, None, None)
    ELSE IF resp.end = "error_frame" THEN Failure(Err("ChatGPT error", 0))
    ELSE IF resp.text = "" THEN Failure(Err("Empty response from API", 0))
    ELSE ApiSuccess(resp.text)

(***************************************************************************)
(* prompt_chatgpt_api: the lines of the event stream and what the loop     *)
(* over them does with each.                                               *)
(***************************************************************************)
\* A line as aiter_lines() yields it.  prefix: how the line begins; kind: what
\* follows the prefix: "terminator" ([DONE]), "malformed" (json.loads raises
\* JSONDecodeError), "non_object" (JSON that is no object: a number, null, a
\* list), "object", or "none" (nothing).  Of an object: message is "dict",
\* "absent" or "null"; parts says what message.content.parts holds: "str" (a
\* first part that is the string text), "nonstr" (a first part that is no
\* string), "empty" (no part, or no such key); conversation_id is None when
\* the key is absent; is_reasoning and reasoning_duration (0 when absent) are
\* the metadata; error is "" when the key is absent or falsy.
Line(prefix, kind, message, parts, text, cid, is_reasoning, duration, error) ==
    [prefix |-> prefix, kind |-> kind, message |-> message, parts |-> parts,
     text |-> text, conversation_id |-> cid, is_reasoning |-> is_reasoning,
     reasoning_duration |-> duration, error |-> error]

Frame(message, parts, text, cid, is_reasoning, duration, error) ==
    Line("data: ", "object", message, parts, text, cid, is_reasoning, duration,
         error)

Bare(prefix, kind) == Line(prefix, kind, "absent", "empty", "", None, FALSE, 0, "")

\* Lines without the marker: an empty line, another field ("event: ..."),
\* and the terminator behind a marker that lacks its space ("data:[DONE]").
NonDataLines == {Bare("", "none"), Bare("event: ", "none"), Bare("data:", "terminator")}

Terminator == Bare("data: ", "terminator")

Malformed == Bare("data: ", "malformed")

NonObject == Bare("data: ", "non_object")

FrameA == Frame("dict", "str", "A", "c1", FALSE, 0, "")

FrameAB == Frame("dict", "str", "AB", "c2", TRUE, 5, "")

\* A snapshot whose first part is the empty string.
FrameEmptyText == Frame("dict", "str", "", None, TRUE, 2, "")

\* A snapshot whose first part is no string (an image pointer).
FrameNoText == Frame("dict", "nonstr", "", None, FALSE, 0, "")

\* An error reported together with a message, and with "message": null.
FrameError == Frame("dict", "str", "E", "c2", FALSE, 0, "boom")

FrameErrorNullMessage == Frame("null", "empty", "", "c2", FALSE, 0, "boom")

Lines ==
    NonDataLines
    \cup {Terminator, Malformed, NonObject, FrameA, FrameAB, FrameEmptyText,
          FrameNoText, FrameError, FrameErrorNullMessage}

HasMarkerWithoutSpace(line) == line.prefix \in {"data: ", "data:"}

\* 'line.startswith("data: ")'
HasMarker(line) == line.prefix = "data: "

\* 'data_str == "[DONE]"'
IsTerminator(line) == line.kind = "terminator"

\* event.get / message.get / content.get on a value that is no dict raises
\* AttributeError.
Raises(line) == line.kind = "non_object" \/ line.message = "null"

TextAfterKeepingFirst(text, line) ==
    IF line.parts = "str" /\ text = "" THEN line.text ELSE text

\* "if parts and isinstance(parts[0], str): response_text = parts[0]"
TextAfter(text, line) == IF line.parts = "str" THEN line.text ELSE text

ConversationIdAfterLatest(cid, line) ==
    IF line.conversation_id # None THEN line.conversation_id ELSE cid

\* "if not result_conversation_id: result_conversation_id = event.get(...)"
ConversationIdAfter(cid, line) == IF cid = None THEN line.conversation_id ELSE cid

\* "if metadata.get("is_reasoning"): ... thinking_time = int(thinking_secs)"
ThinkingTimeAfter(t, line) ==
    IF line.is_reasoning /\ line.reasoning_duration # 0
    THEN line.reasoning_duration ELSE t

\* 'if event.get("error")'
HasError(line) == line.error # ""

LineEffectAbortingOnMalformed(line) ==
    IF ~HasMarker(line) THEN "skip"
    ELSE IF IsTerminator(line) THEN "done"
    ELSE IF line.kind = "malformed" THEN "raise"
    ELSE IF Raises(line) THEN "raise"
    ELSE IF HasError(line) THEN "error"
    ELSE "update"

\* What one pass of the loop body does with a line: "skip" (continue),
\* "done" (break), "raise" (an exception leaves the loop), "error" (the
\* return of the error check, which comes after the extraction), "update".
LineEffect(line) ==
    IF ~HasMarker(line) THEN "skip"
    ELSE IF IsTerminator(line) THEN "done"
    ELSE IF line.kind = "malformed" THEN "skip"
    ELSE IF Raises(line) THEN "raise"
    ELSE IF HasError(line) THEN "error"
    ELSE "update"

\* The locals of the loop; outcome is "reading" while the loop goes on.
Acc(text, cid, t, outcome) ==
    [response_text |-> text, conversation_id |-> cid, thinking_time |-> t,
     outcome |-> outcome]

\* One pass of the loop body.
Consume(acc, line) ==
    LET e == LineEffect(line) IN
    IF e = "skip" THEN acc
    ELSE IF e \in {"done", "raise"} THEN [acc EXCEPT !.outcome = e]
    ELSE Acc(TextAfter(acc.response_text, line),
             ConversationIdAfter(acc.conversation_id, line),
             ThinkingTimeAfter(acc.thinking_time, line),
             IF e = "error" THEN "error" ELSE "reading")

\* The end of the request as prompt_chatgpt_api's result sees it.
EndOf(outcome) ==
    CASE outcome = "error" -> "error_frame"
      [] outcome = "raise" -> "exception"
      [] outcome \in {"done", "eof"} -> "done"
      [] OTHER -> outcome

\* The result dict: the keys of the success dict that the stream decides are
\* response, thinking_time_seconds (0 for None) and conversation_id.
StreamReturn(status, acc, outcome) ==
    LET r == prompt_chatgpt_api([status |-> status, text |-> acc.response_text,
                                 end |-> EndOf(outcome)])
    IN  [res |-> r,
         thinking_time_seconds |->
            IF r.success /\ acc.thinking_time > 0 THEN acc.thinking_time ELSE 0,
         conversation_id |-> IF r.success THEN acc.conversation_id ELSE None]

NoStreamResult == [res |-> NoResult, thinking_time_seconds |-> 0,
                   conversation_id |-> None]

\* The statuses the conversation endpoint may answer with.
Statuses == {200, 401, 403, 429, 500, 302}

(***************************************************************************)
(* solve_proof_of_work: bytes, the hash and the token.                     *)
(***************************************************************************)
\* The iteration ceiling _POW_MAX_ITERATIONS, 500,000 in the source, scaled.
POW_MAX_ITERATIONS == 4

\* The longest difficulty string drawn.
MaxHexLen == 4

\* The characters difficulty strings are drawn from; "z" is no hex digit.
DifficultyChars == {"0", "f", "z"}

HexValue == [c \in {"0", "f"} |-> IF c = "0" THEN 0 ELSE 15]

Difficulties ==
    UNION {[1..n -> DifficultyChars] : n \in 0..MaxHexLen}

\* bytes.fromhex raises ValueError on a string of odd length or with a
\* character that is no hex digit.
FromHexRaises(d) ==
    Len(d) % 2 = 1 \/ \E k \in 1..Len(d) : d[k] \notin DOMAIN HexValue

FromHex(d) ==
    [k \in 1..(Len(d) \div 2) |-> 16 * HexValue[d[2 * k - 1]] + HexValue[d[2 * k]]]

\* config with i in slot 3 and i >> 1 in slot 9; the thirteen other slots
\* are fixed for the call.
Config(n) == [slot_a |-> n, slot_b |-> n \div 2]

\* base64.b64encode(config_json)
B64(c) == [b64 |-> c]

Payloads == {B64(Config(n)) : n \in 0..(POW_MAX_ITERATIONS - 1)}

\* Values of the digest, here of two bytes; the hash of a call is any
\* function from what is hashed to these.
Digests == {<<0, 0>>, <<15, 240>>, <<255, 255>>}

\* digest[:n]
Take(b, n) == SubSeq(b, 1, IF n < Len(b) THEN n ELSE Len(b))

\* a <= b on bytes objects: lexicographic, a proper prefix being smaller.
RECURSIVE BytesLeq(_, _)
BytesLeq(a, b) ==
    IF a = <<>> THEN TRUE
    ELSE IF b = <<>> THEN FALSE
    ELSE IF a[1] < b[1] THEN TRUE
    ELSE IF a[1] > b[1] THEN FALSE
    ELSE BytesLeq(Tail(a), Tail(b))

QualifiesFirstByteOnly(digest, tgt) == BytesLeq(Take(digest, 1), Take(tgt, 1))

QualifiesUntruncated(digest, tgt) == BytesLeq(digest, tgt)

QualifiesNonEmptyTarget(digest, tgt) ==
    tgt # <<>> /\ BytesLeq(Take(digest, Len(tgt)), tgt)

\* "if digest[:target_len] <= target"
Qualifies(digest, tgt) == BytesLeq(Take(digest, Len(tgt)), tgt)

\* "gAAAAAB" + config_b64.decode()
PowToken(config_b64) == [prefix |-> "gAAAAAB", payload |-> config_b64]

\* pow_token for a call that returned None, or has not returned.
NoToken == [prefix |-> None, payload |-> B64(Config(0))]

(***************************************************************************)
(* prompt_chatgpt_api: the token estimate of a success.                    *)
(***************************************************************************)
TokenCountRoundingUp(text) ==
    IF (Len(text) + 3) \div 4 < 1 THEN 1 ELSE (Len(text) + 3) \div 4

\* "max(1, len(text) // 4)"
TokenCount(text) == IF Len(text) \div 4 < 1 THEN 1 ELSE Len(text) \div 4

\* The "tokens" entry of the success dict.
Tokens(prompt_text, text) ==
    [response |-> TokenCount(text), prompt |-> TokenCount(prompt_text),
     total |-> TokenCount(text) + TokenCount(prompt_text)]

\* t_tokens of a failure (the dict has no "tokens"), or before the return.
NoTokens == [response |-> 0, prompt |-> 0, total |-> 0]

Prompts ==
    {"", "2+2", "Hello", "12345678", "123456789", "Hello world!",
     "aaaaaaaaaaaaaaaa"}

StreamedTexts ==
    {"", "4", "abc", "abcd", "abcdefg", "abcdefgh", "abcdefghijk",
     "abcdefghijkl"}

(***************************************************************************)
(* Cookies: the header of the fast path and the injection of the           *)
(* automation path.                                                        *)
(***************************************************************************)
\* The longest cookie list drawn.
MaxCookies == 3

\* A cookie dict, by its "name" and "value"; None is an absent key or null.
Cookie(name, value) == [name |-> name, value |-> value]

CookieDicts ==
    {Cookie(n, v) : n \in {"", "a", "b"}, v \in {None, "", "1"}}

CookieLists == UNION {[1..n -> CookieDicts] : n \in 0..MaxCookies}

\* Python truth of c.get(key): a non-empty string.
Truthy(x) == x \notin {None, ""}

KeptInHeaderByValueOnly(c) == Truthy(c.value)

\* "if c.get("value") and c.get("name")"
KeptInHeader(c) == Truthy(c.value) /\ Truthy(c.name)

\* f"{c['name']}={c['value']}"
Pair(c) == c.name \o "=" \o c.value

\* "; ".join(...)
RECURSIVE Join(_)
Join(pairs) ==
    IF pairs = <<>> THEN ""
    ELSE IF Len(pairs) = 1 THEN pairs[1]
    ELSE pairs[1] \o "; " \o Join(Tail(pairs))

build_cookie_header(cs) ==
    LET kept == SelectSeq(cs, KeptInHeader)
    IN Join([k \in 1..Len(kept) |-> Pair(kept[k])])

\* "if not c.get("value") or not c.get("name"): continue"
SkippedAtInjection(c) == ~Truthy(c.value) \/ ~Truthy(c.name)

(***************************************************************************)
(* Automation sessions and the browser profile directories.                *)
(***************************************************************************)
Sessions == {"A", "B"}

\* Values of --session-id; None is the option left out.
SessionIds == {None, "s1", "s2"}

\* config.USER_DATA_DIR
USER_DATA_DIR == "browser_profile"

\* "USER_DATA_DIR.parent / f"browser_profile_{session_id}"" or USER_DATA_DIR
ProfileOf(sid) ==
    IF sid # None THEN "browser_profile_" \o sid ELSE USER_DATA_DIR

ProfileDirs == {ProfileOf(sid) : sid \in SessionIds}

\* Holders of a directory's lock files: a running session's browser, the
\* dead browser of a crashed session ("stale"), or no one ("free").
Free == "free"
Stale == "stale"

\* clean_browser_locks(): the three Singleton* files of USER_DATA_DIR are
\* unlinked, whoever holds them.
LocksAfterClean(l) == [l EXCEPT ![USER_DATA_DIR] = Free]

(***************************************************************************)
(* chatgpt_api_prompt as a coroutine: the requests in flight at one time,  *)
(* what each is answered, and the locals each invocation keeps.            *)
(***************************************************************************)
Requests == {"r1", "r2"}

\* Lines read by one request while another is in flight.
MaxConcLines == 2

\* The answers of the sentinel endpoint that lead each way through step 3.
ConcRequirementsResponses ==
    {resp \in RequirementsResponses :
        /\ resp.status \in {200, 500}
        /\ resp.json \/ resp.status = 500
        /\ resp.proofofwork \in
              {NoPow, Pow("dict", TRUE, "str", "hex"),
               Pow("dict", TRUE, "bad", "hex")}
        /\ resp.token = None => resp.proofofwork = NoPow}

ConcLines == {FrameA, FrameAB, Terminator}

\* The failure dicts chatgpt_api_prompt returns itself carry neither a
\* thinking time nor a conversation id.
ConcReturn(res) ==
    [res |-> res, thinking_time_seconds |-> 0, conversation_id |-> None]

\* 'result["cookies_used"] = len(cookies)'
WithCookiesUsed(ret) == [ret EXCEPT !.res.cookies_used = TRUE]

\* The locals of one invocation that are read after an await: access_token
\* (chatgpt_api_prompt), the sentinel tokens, and the locals of
\* prompt_chatgpt_api's loop.
Locals(access_token, rt, pt, acc) ==
    [access_token |-> access_token, requirements_token |-> rt,
     proof_token |-> pt, acc |-> acc]

NoLocals == Locals(None, None, None, Acc("", None, 0, "reading"))

\* The headers of the conversation POST that the locals decide.
ConversationHeaders(access_token, rt, pt) ==
    [authorization |-> access_token, requirements |-> rt, proof |-> pt]

NoHeaders == ConversationHeaders(None, None, None)

NoAuthResponse == [net |-> "none", status |-> None, body |-> None]

NoRequirementsResponse ==
    [status |-> 0, json |-> FALSE, token |-> None, proofofwork |-> NoPow]

\* What one request has been answered so far; solve is "not_run" while the
\* solver was not called.
NoServed ==
    [cookies |-> None, auth |-> NoAuthResponse, req |-> NoRequirementsResponse,
     solve |-> "not_run", status |-> 0, end |-> None, lines |-> <<>>]

FrameOfShared(r) == "r1"

\* Each call of the coroutine function has a frame of its own: the locals
\* are not module globals.
FrameOf(r) == r

(***************************************************************************)
(* _upload_attachments: the future and the cleanup.                        *)
(***************************************************************************)
\* FileChooserOpened events delivered during one call.
MaxEvents == 2

Events == 1..MaxEvents

\* chooser_future.done(): a result was set, or wait_for cancelled it.
Done(fut) == fut # "pending"

MaySetResultUnguarded(fut) == TRUE

\* "if not chooser_future.done():" before each set_result.
MaySetResult(fut) == ~Done(fut)

\* The future after the guarded "chooser_future.set_result(v)": set_result
\* on a future that is done raises InvalidStateError and changes nothing.
FutureAfterSet(fut, v) == IF MaySetResult(fut) /\ ~Done(fut) THEN v ELSE fut

\* set_result is reached on a future that is done.
InvalidState(fut) == MaySetResult(fut) /\ Done(fut)

RegisteredAfterFinallyKept(reg) == reg

\* "if _on_file_chooser in handlers: handlers.remove(_on_file_chooser)"
RegisteredAfterFinally(reg) == FALSE

\* The page's interception after finally's
\* "page.send(set_intercept_file_chooser_dialog(enabled=False))", whose
\* exception is swallowed.
InterceptAfterFinally(intercept, outcome) ==
    IF outcome = "ok" THEN FALSE ELSE intercept

UploadFailure(msg) == Failure(Err(msg, 0))

UploadSuccess == Result(TRUE, NoErr, 0, FALSE, None, None)

(***************************************************************************)
(* get_chatgpt_chat: the cleaning of a message text.  A text is the        *)
(* sequence of the lines that "\n" separates, so the empty string is the   *)
(* one empty line.                                                         *)
(***************************************************************************)
\* Lines of a raw message text.
MaxMsgLines == 3

\* The suffixes of the loop, in its order, without their leading "\n".
Suffixes == <<"Copy", "Share", "Like", "Dislike", "Read aloud", "Search">>

UILabels == {Suffixes[i] : i \in 1..Len(Suffixes)}

MsgLines == {"Hello", ""} \cup UILabels

RawTexts == UNION {[1..n -> MsgLines] : n \in 1..MaxMsgLines}

\* text.endswith('\n' + label)
EndsWith(text, label) == Len(text) >= 2 /\ text[Len(text)] = label

RECURSIVE StripSuffix(_, _)
\* "while text.endswith(suffix): text = text[:-len(suffix)]"
StripSuffix(text, label) ==
    IF EndsWith(text, label)
    THEN StripSuffix(SubSeq(text, 1, Len(text) - 1), label)
    ELSE text

RECURSIVE StripSuffixes(_, _)
\* "for suffix in [...]": one pass over the suffixes from the i-th on.
StripSuffixes(text, i) ==
    IF i > Len(Suffixes) THEN text
    ELSE StripSuffixes(StripSuffix(text, Suffixes[i]), i + 1)

RECURSIVE LStrip(_)
LStrip(text) ==
    IF Len(text) >= 2 /\ text[1] = "" THEN LStrip(Tail(text)) ELSE text

RECURSIVE RStrip(_)
RStrip(text) ==
    IF Len(text) >= 2 /\ text[Len(text)] = ""
    THEN RStrip(SubSeq(text, 1, Len(text) - 1))
    ELSE text

\* text.strip(): the lines hold no blanks, so it removes the empty lines at
\* both ends.
StripLines(text) == LStrip(RStrip(text))

\* The text of the entry appended to cleaned_messages.
CleanText(role, text) ==
    StripLines(IF role = "assistant" THEN StripSuffixes(text, 1) ELSE text)

(***************************************************************************)
(* Automation path: what prompt_chatgpt returns.                           *)
(***************************************************************************)
\* wait_for_response's return values: a text with a thinking time, the
\* rate-limit and error markers, and the empty text of a timeout.
WaitReturns ==
    {<<"resp", 0>>, <<"resp", 7>>, <<"", -1>>, <<"", -2>>, <<"", 0>>, <<"", 7>>}

\* waitReturn before wait_for_response has returned.
NoWaitReturn == <<None, 0>>

BrowserResultOf(ret) ==
    IF ret[2] = -1 THEN
        Result(FALSE, Err("Rate limit reached. Wait before trying again.", 0),
               0, TRUE, None, None)
    ELSE IF ret[2] = -2 THEN
        Failure(Err("ChatGPT returned an error. Try again.", 0))
    ELSE IF ret[1] = "" THEN
        Failure(Err("Timeout waiting for ChatGPT response", 0))
    ELSE [Result(TRUE, NoErr, 0, FALSE, None, ret[1]) EXCEPT !.cookies_used = TRUE]

(***************************************************************************)
(* Spec: one run of main() in prompt mode.                                 *)
(***************************************************************************)
WaitIdle ==
    /\ w_pc = "idle"
    /\ last_text = ""
    /\ stable_count = 0
    /\ thinking_time = 0
    /\ elapsed = 0
    /\ ticks = 0
    /\ w_ret = <<"", 0>>
    /\ w_exit = None
    /\ tickText = ""
    /\ tickGen = None
    /\ prevTickText = ""
    /\ stableRun = 0
    /\ tickPhrase = "none"

StreamIdle ==
    /\ s_pc = "idle"
    /\ s_status = 0
    /\ s_lines = <<>>
    /\ response_text = ""
    /\ result_conversation_id = None
    /\ api_thinking_time = 0
    /\ conversation_id = None
    /\ s_end = None
    /\ s_result = NoStreamResult

PowIdle ==
    /\ p_pc = "idle"
    /\ p_difficulty = <<>>
    /\ digestOf = [c \in Payloads |-> <<0, 0>>]
    /\ target = <<>>
    /\ p_i = 0
    /\ candidates = <<>>
    /\ pow_token = NoToken

EstIdle ==
    /\ t_pc = "idle"
    /\ t_prompt = ""
    /\ t_text = ""
    /\ t_success = FALSE
    /\ t_tokens = NoTokens

CookieIdle ==
    /\ c_pc = "idle"
    /\ cookies = <<>>
    /\ cookie_header = ""
    /\ c_k = 1
    /\ set_cookies = <<>>
    /\ injected = 0

SessIdle ==
    /\ sess_pc = [s \in Sessions |-> "idle"]
    /\ session_id = [s \in Sessions |-> None]
    /\ browser_profile = [s \in Sessions |-> None]
    /\ locks = [d \in ProfileDirs |-> Free]
    /\ removedLive = {}

ConcIdle ==
    /\ k_pc = [r \in Requests |-> "idle"]
    /\ frame = [r \in Requests |-> NoLocals]
    /\ served = [r \in Requests |-> NoServed]
    /\ k_sent = [r \in Requests |-> NoHeaders]
    /\ k_result = [r \in Requests |-> NoStreamResult]

NullIdle ==
    /\ tickNulls = {}
    /\ w_threw = None

OpIdle ==
    /\ o_pc = "idle"
    /\ o_flags = {}
    /\ o_browser = "none"
    /\ o_steps = <<>>
    /\ o_failed = None
    /\ o_result = NoResult

UpIdle ==
    /\ u_pc = "idle"
    /\ u_future = "pending"
    /\ u_hpc = [e \in Events |-> "idle"]
    /\ u_intercept = FALSE
    /\ u_registered = FALSE
    /\ u_setOnDone = FALSE
    /\ u_observed = 0
    /\ u_handled = None
    /\ u_cleanup = None
    /\ u_result = NoResult

MsgIdle ==
    /\ m_pc = "idle"
    /\ m_role = "assistant"
    /\ m_raw = <<>>
    /\ m_text = <<>>
    /\ m_again = <<>>

Aux2Idle == ConcIdle /\ NullIdle /\ OpIdle /\ UpIdle /\ MsgIdle

AuxIdle == PowIdle /\ EstIdle /\ CookieIdle /\ SessIdle /\ Aux2Idle

\* The specifications of single components start from an idle main().
CoreIdle == mode = "auto" /\ flags = {}

OrchIdle ==
    /\ pc = "start"
    /\ http = <<>>
    /\ apiCalls = 0
    /\ browserRuns = 0
    /\ browserLaunched = 0
    /\ promptSent = <<>>
    /\ warned = FALSE
    /\ requirements_token = None
    /\ proof_token = None
    /\ auth = NoAuth
    /\ req = NoReq
    /\ solverCalls = 0
    /\ convHeaders = [requirements |-> None, proof |-> None]
    /\ convStatus = 0
    /\ convResp = NoConvResp
    /\ waitReturn = NoWaitReturn
    /\ apiResult = NoResult
    /\ browserResult = NoResult
    /\ result = NoResult

Init ==
    /\ mode \in Modes
    /\ flags \in {f \in SUBSET (BrowserOnlyFlags \cup OtherFlags) : ValidFlags(f)}
    /\ OrchIdle
    /\ WaitIdle
    /\ StreamIdle
    /\ AuxIdle

\* main(): "if use_api: ... else: ..."
Route ==
    /\ pc = "start"
    /\ pc' = IF use_api(mode, flags) THEN "api_cookies" ELSE "browser"
    /\ warned' = (~use_api(mode, flags) /\ WarnsApiIneligible(mode, flags))
    /\ UNCHANGED <<convResp, waitReturn>>
    /\ UNCHANGED <<mode, flags, http, apiCalls, browserRuns, browserLaunched,
                   promptSent, requirements_token, proof_token, auth, req,
                   solverCalls, convHeaders, convStatus, apiResult,
                   browserResult, result>>

\* chatgpt_api_prompt, step 1: the cookies (no network).
ApiExtractCookies ==
    /\ pc = "api_cookies"
    /\ apiCalls' = apiCalls + 1
    /\ \E c \in {"fail", "empty", "ok"} :
          IF c = "ok" THEN
              /\ pc' = "api_auth"
              /\ UNCHANGED apiResult
          ELSE
              /\ pc' = "api_returned"
              /\ apiResult' = Failure(Err(IF c = "fail"
                                          THEN "Cookie extraction failed"
                                          ELSE "No ChatGPT cookies found", 0))
    /\ UNCHANGED <<convResp, waitReturn>>
    /\ UNCHANGED <<mode, flags, http, browserRuns, browserLaunched, promptSent,
                   warned, requirements_token, proof_token, auth, req,
                   solverCalls, convHeaders, convStatus, browserResult, result>>

\* chatgpt_api_prompt, step 2: "Auth failed: ..." keeps the message and drops
\* the status_code key.
ApiGetAccessToken ==
    /\ pc = "api_auth"
    /\ http' = Append(http, GET_SESSION)
    /\ \E resp \in AuthResponses :
          /\ auth' = get_access_token(resp)
          /\ IF auth'.success THEN
                 /\ pc' = "api_req"
                 /\ UNCHANGED apiResult
             ELSE
                 /\ pc' = "api_returned"
                 /\ apiResult' = Failure(auth'.error)
    /\ UNCHANGED <<convResp, waitReturn>>
    /\ UNCHANGED <<mode, flags, apiCalls, browserRuns, browserLaunched,
                   promptSent, warned, requirements_token, proof_token, req,
                   solverCalls, convHeaders, convStatus, browserResult, result>>

\* chatgpt_api_prompt, step 3.
ApiGetChatRequirements ==
    /\ pc = "api_req"
    /\ http' = Append(http, POST_REQUIREMENTS)
    /\ \E resp \in RequirementsResponses :
          /\ req' = get_chat_requirements(resp)
          /\ requirements_token' =
                IF HasRequirementsToken(req') THEN req'.token ELSE None
          /\ pc' = IF NeedsPow(req') THEN "api_pow" ELSE "api_conv"
    /\ UNCHANGED <<convResp, waitReturn>>
    /\ UNCHANGED <<mode, flags, apiCalls, browserRuns, browserLaunched,
                   promptSent, warned, proof_token, auth, solverCalls,
                   convHeaders, convStatus, apiResult, browserResult, result>>

\* chatgpt_api_prompt, step 3b.  An exception leaves chatgpt_api_prompt and
\* asyncio.run: main() ends with a traceback and no result.
ApiSolvePow ==
    /\ pc = "api_pow"
    /\ solverCalls' = IF SolverReached(req.proofofwork)
                       THEN solverCalls + 1 ELSE solverCalls
    /\ \E o \in SolveOutcomes(req.proofofwork) :
          /\ pc' = AfterSolve(o)
          /\ proof_token' = IF o = "raise" THEN proof_token ELSE o
    /\ UNCHANGED <<convResp, waitReturn>>
    /\ UNCHANGED <<mode, flags, http, apiCalls, browserRuns, browserLaunched,
                   promptSent, warned, requirements_token, auth, req,
                   convHeaders, convStatus, apiResult, browserResult, result>>

\* chatgpt_api_prompt, step 4, and 'result["cookies_used"] = len(cookies)'.
ApiConversation ==
    /\ pc = "api_conv"
    /\ http' = Append(http, POST_CONVERSATION)
    /\ promptSent' = Append(promptSent, "api")
    /\ convHeaders' = SentinelHeaders(requirements_token, proof_token)
    /\ \E resp \in ConversationResponses :
          /\ convStatus' = resp.status
          /\ convResp' = resp
          /\ apiResult' = [prompt_chatgpt_api(resp) EXCEPT !.cookies_used = TRUE]
    /\ pc' = "api_returned"
    /\ UNCHANGED <<waitReturn>>
    /\ UNCHANGED <<mode, flags, apiCalls, browserRuns, browserLaunched, warned,
                   requirements_token, proof_token, auth, req, solverCalls,
                   browserResult, result>>

\* main(): "if not result.get("success") and args.mode == "auto""
MainAfterApi ==
    /\ pc = "api_returned"
    /\ pc' = MainAfterApiNext(apiResult, mode)
    /\ result' = IF pc' = "done" THEN apiResult ELSE result
    /\ UNCHANGED <<convResp, waitReturn>>
    /\ UNCHANGED <<mode, flags, http, apiCalls, browserRuns, browserLaunched,
                   promptSent, warned, requirements_token, proof_token, auth,
                   req, solverCalls, convHeaders, convStatus, apiResult,
                   browserResult>>

\* prompt_chatgpt: _setup_authenticated_browser.  An exception of uc.start or
\* browser.get is outside prompt_chatgpt's try and ends main().
PromptChatgptSetup ==
    /\ pc = "browser"
    /\ browserRuns' = browserRuns + 1
    /\ \E o \in {"cookie_fail", "no_cookies", "raise_launch", "not_auth",
                 "raise_after_launch", "ok"} :
          /\ browserLaunched' =
                IF o \in {"cookie_fail", "no_cookies", "raise_launch"}
                THEN browserLaunched ELSE browserLaunched + 1
          /\ pc' = CASE o \in {"raise_launch", "raise_after_launch"} -> "crashed"
                     [] o = "ok" -> "browser_ui"
                     [] OTHER -> "browser_returned"
          /\ browserResult' =
                CASE o = "cookie_fail" -> Failure(Err("Cookie extraction failed", 0))
                  [] o = "no_cookies" -> Failure(Err("No ChatGPT cookies found", 0))
                  [] o = "not_auth" -> Failure(Err("Not authenticated", 0))
                  [] OTHER -> browserResult
    /\ UNCHANGED <<convResp, waitReturn>>
    /\ UNCHANGED <<mode, flags, http, apiCalls, promptSent, warned,
                   requirements_token, proof_token, auth, req, solverCalls,
                   convHeaders, convStatus, apiResult, result>>

\* How the steps of prompt_chatgpt before wait_for_response can end.
UIOutcomes(f) ==
    {"input_fail", "send_fail", "exception", "sent"}
    \cup (IF f \cap {"continue_chat", "project"} # {} THEN {"nav_fail"} ELSE {})
    \cup (IF "files" \in f THEN {"upload_fail"} ELSE {})

\* prompt_chatgpt: navigation, upload, input_prompt, send_prompt.
PromptChatgptUI ==
    /\ pc = "browser_ui"
    /\ \E o \in UIOutcomes(flags) :
          IF o = "sent" THEN
              /\ pc' = "browser_wait"
              /\ promptSent' = Append(promptSent, "ui")
              /\ UNCHANGED browserResult
          ELSE
              /\ pc' = "browser_returned"
              /\ UNCHANGED promptSent
              /\ browserResult' = Failure(Err(o, 0))
    /\ UNCHANGED <<convResp, waitReturn>>
    /\ UNCHANGED <<mode, flags, http, apiCalls, browserRuns, browserLaunched,
                   warned, requirements_token, proof_token, auth, req,
                   solverCalls, convHeaders, convStatus, apiResult, result>>

\* prompt_chatgpt: wait_for_response and the result built from its return.
PromptChatgptWait ==
    /\ pc = "browser_wait"
    /\ \/ \E ret \in WaitReturns :
             /\ waitReturn' = ret
             /\ browserResult' = BrowserResultOf(ret)
       \/ /\ browserResult' = Failure(Err("exception", 0))
          /\ UNCHANGED waitReturn
    /\ pc' = "browser_returned"
    /\ UNCHANGED convResp
    /\ UNCHANGED <<mode, flags, http, apiCalls, browserRuns, browserLaunched,
                   promptSent, warned, requirements_token, proof_token, auth,
                   req, solverCalls, convHeaders, convStatus, apiResult, result>>

\* main(): result = asyncio.run(prompt_chatgpt(...))
MainAfterBrowser ==
    /\ pc = "browser_returned"
    /\ result' = browserResult
    /\ pc' = "done"
    /\ UNCHANGED <<convResp, waitReturn>>
    /\ UNCHANGED <<mode, flags, http, apiCalls, browserRuns, browserLaunched,
                   promptSent, warned, requirements_token, proof_token, auth,
                   req, solverCalls, convHeaders, convStatus, apiResult,
                   browserResult>>

Next ==
    \/ (Route /\ UNCHANGED <<waitVars, streamVars, auxVars>>)
    \/ (ApiExtractCookies /\ UNCHANGED <<waitVars, streamVars, auxVars>>)
    \/ (ApiGetAccessToken /\ UNCHANGED <<waitVars, streamVars, auxVars>>)
    \/ (ApiGetChatRequirements /\ UNCHANGED <<waitVars, streamVars, auxVars>>)
    \/ (ApiSolvePow /\ UNCHANGED <<waitVars, streamVars, auxVars>>)
    \/ (ApiConversation /\ UNCHANGED <<waitVars, streamVars, auxVars>>)
    \/ (MainAfterApi /\ UNCHANGED <<waitVars, streamVars, auxVars>>)
    \/ (PromptChatgptSetup /\ UNCHANGED <<waitVars, streamVars, auxVars>>)
    \/ (PromptChatgptUI /\ UNCHANGED <<waitVars, streamVars, auxVars>>)
    \/ (PromptChatgptWait /\ UNCHANGED <<waitVars, streamVars, auxVars>>)
    \/ (MainAfterBrowser /\ UNCHANGED <<waitVars, streamVars, auxVars>>)

Spec == Init /\ [][Next]_vars

(***************************************************************************)
(* SpecWait: one call of wait_for_response.  Each iteration of the loop    *)
(* is one step; what the page shows in it is the step's input.             *)
(***************************************************************************)
STABILITY_THRESHOLD == 3

\* Bounds of the model: the timeout passed in (seconds), the iterations
\* counted, and the seconds one iteration can take (its evaluations, the
\* sleep of one second before the final extraction, and the poll sleep).
WaitTimeoutBound == 5
MaxTicks == 5
MaxTickSeconds == 2

\* response_text: the text left of the page after the chrome lines are
\* filtered out, "" when neither extraction finds any.
SampleTexts == {"", "Hello", "Hi"}

\* final_text: None when the evaluate call yields nothing.
FinalTexts == {None, "", " ", "Hello"}

\* is_generating: None when the evaluate call yields nothing.
GenValues == {"True", "False", None}

\* thinking_match: <<>> for None, otherwise the number the script returns.
ThinkingMatches == {<<>>, <<-1>>, <<0>>, <<3>>, <<7>>}

\* Which of the phrases document.body.innerText contains.
PagePhrases == {"none", "rate limit", "something went wrong", "both"}

PhraseReturnErrorFirst(phrase) ==
    IF phrase \in {"something went wrong", "both"} THEN <<"", -2>> ELSE <<"", -1>>

\* The two phrase checks, in the order of the code: the rate-limit phrases
\* first.
PhraseReturn(phrase) ==
    IF phrase \in {"rate limit", "both"} THEN <<"", -1>> ELSE <<"", -2>>

LoopContinuesAtTimeout(e) == e <= WaitTimeoutBound

\* "while time.time() - start_time < timeout"
LoopContinues(e) == e < WaitTimeoutBound

\* str.strip() on the texts of the model.
Strip(t) == IF t = " " THEN "" ELSE t

IsGeneratingIgnored(g) == FALSE

\* "not is_generating": None and False are falsy.
IsGenerating(g) == g = "True"

\* "if thinking_match is not None and thinking_match >= 0"
ThinkingAfter(t, tm) == IF tm # <<>> /\ tm[1] >= 0 THEN tm[1] ELSE t

\* stable_count after "if response_text: ..."
StableAfter(count, last, text, g) ==
    IF text = "" THEN count
    ELSE IF ~IsGenerating(g) THEN (IF text = last THEN count + 1 ELSE 0)
    ELSE 0

\* last_text after "if response_text: ..."
LastAfter(last, text, g) ==
    IF text = "" THEN last
    ELSE IF ~IsGenerating(g) /\ text = last THEN last
    ELSE text

\* "if stable_count >= STABILITY_THRESHOLD: return", in the branch that has
\* just incremented stable_count
ReturnsStable(count, last, text, g) ==
    /\ text # ""
    /\ ~IsGenerating(g)
    /\ text = last
    /\ count + 1 >= STABILITY_THRESHOLD

\* "if response_text and not is_generating: ... if final_text: return"
ReturnsFinal(text, g, final) ==
    /\ text # ""
    /\ ~IsGenerating(g)
    /\ final \notin {None, ""}

InitWait ==
    /\ mode = "auto"
    /\ flags = {}
    /\ OrchIdle
    /\ StreamIdle
    /\ AuxIdle
    /\ w_pc = "polling"
    /\ last_text = ""
    /\ stable_count = 0
    /\ thinking_time = 0
    /\ elapsed = 0
    /\ ticks = 0
    /\ w_ret = <<"", 0>>
    /\ w_exit = None
    /\ tickText = ""
    /\ tickGen = None
    /\ prevTickText = ""
    /\ stableRun = 0
    /\ tickPhrase = "none"

\* An iteration that ends at one of the phrase checks.
WaitTickPhrase ==
    /\ w_pc = "polling"
    /\ LoopContinues(elapsed)
    /\ ticks' = IF ticks < MaxTicks THEN ticks + 1 ELSE ticks
    /\ \E phrase \in PagePhrases \ {"none"} :
          /\ tickPhrase' = phrase
          /\ w_ret' = PhraseReturn(phrase)
          /\ w_exit' = IF w_ret'[2] = -1 THEN "rate_limited" ELSE "error"
    /\ w_pc' = "returned"
    /\ UNCHANGED <<last_text, stable_count, thinking_time, elapsed, tickText,
                   tickGen, prevTickText, stableRun>>

\* An iteration that gets past the phrase checks.  final_text is read only
\* by an iteration that reaches line 771 with a text and generation off, and
\* the poll sleep is reached only by an iteration that does not return.
WaitTick ==
    /\ w_pc = "polling"
    /\ LoopContinues(elapsed)
    /\ ticks' = IF ticks < MaxTicks THEN ticks + 1 ELSE ticks
    /\ tickPhrase' = "none"
    /\ \E g \in GenValues, tm \in ThinkingMatches, text \in SampleTexts :
          /\ thinking_time' = ThinkingAfter(thinking_time, tm)
          /\ stable_count' = StableAfter(stable_count, last_text, text, g)
          /\ last_text' = LastAfter(last_text, text, g)
          /\ tickText' = text
          /\ tickGen' = g
          /\ prevTickText' = tickText
          /\ stableRun' = IF text # "" /\ text = tickText /\ g # "True"
                          THEN stableRun + 1 ELSE 0
          /\ IF ReturnsStable(stable_count, last_text, text, g) THEN
                 /\ w_pc' = "returned"
                 /\ w_exit' = "stable"
                 /\ w_ret' = <<Strip(text), thinking_time'>>
                 /\ UNCHANGED elapsed
             ELSE
                 \E final \in IF text # "" /\ ~IsGenerating(g)
                               THEN FinalTexts ELSE {None} :
                    IF ReturnsFinal(text, g, final) THEN
                        /\ w_pc' = "returned"
                        /\ w_exit' = "final"
                        /\ w_ret' = <<Strip(final), thinking_time'>>
                        /\ UNCHANGED elapsed
                    ELSE
                        /\ \E dt \in 0..MaxTickSeconds : elapsed' = elapsed + dt
                        /\ UNCHANGED <<w_pc, w_exit, w_ret>>

\* The loop condition fails: "return last_text.strip() if last_text else "",
\* thinking_time"
WaitTimeout ==
    /\ w_pc = "polling"
    /\ ~LoopContinues(elapsed)
    /\ w_pc' = "returned"
    /\ w_exit' = "timeout"
    /\ w_ret' = <<Strip(last_text), thinking_time>>
    /\ UNCHANGED <<last_text, stable_count, thinking_time, elapsed, ticks,
                   tickText, tickGen, prevTickText, stableRun, tickPhrase>>

NextWait ==
    \/ (WaitTickPhrase /\ UNCHANGED <<orchVars, streamVars, auxVars>>)
    \/ (WaitTick /\ UNCHANGED <<orchVars, streamVars, auxVars>>)
    \/ (WaitTimeout /\ UNCHANGED <<orchVars, streamVars, auxVars>>)

SpecWait == InitWait /\ [][NextWait]_vars

\* The clock read by the loop condition is the wall clock: it moves on
\* whether or not a sleep consumes time, so among iterations going on for
\* ever some see it advance; and the loop exit is taken once it is enabled.
SpecWaitFair ==
    /\ SpecWait
    /\ SF_vars(WaitTick /\ elapsed' > elapsed /\ UNCHANGED <<orchVars, streamVars, auxVars>>)
    /\ WF_vars(WaitTimeout /\ UNCHANGED <<orchVars, streamVars, auxVars>>)

(***************************************************************************)
(* SpecWaitNull: wait_for_response with each _cdp_eval call of an          *)
(* iteration as an input.  A call gives the value of the expression, None  *)
(* when the expression has no value, or raises inside page.send.           *)
(***************************************************************************)
\* _cdp_eval: "except Exception: return None".
cdp_eval(outcome) == IF outcome = "raise" THEN None ELSE outcome

\* What page.send can give for each of the five calls.  "page": a body text
\* with neither phrase and no "Thought for" line; "thought": a body text
\* whose "Thought for 3 seconds" line is followed by the line "Hi"; "obj":
\* a value that is no string (an object that came back through
\* JSON.stringify).
PageOutcomes == {"raise", None, "page"}

GenOutcomes == {None, "True"}

RawThinkingMatches == {<<>>, <<3>>}

FullOutcomes == {"raise", None, "thought"}

ProseOutcomes == {None, "Hello"}

FinalOutcomes == {None, "Hello", "obj"}

OrEmptyMissing(v) == v

\* '... or ""'
OrEmpty(v) == IF v = None THEN "" ELSE v

\* page_text.lower() and re.search(pattern, full_page_text) raise on None.
RaisesOnNone(v) == v = None

\* final_text.strip() raises on a value that has no such method.
StripRaises(v) == v = "obj"

\* Method 1: the lines after "Thought for N seconds", without the UI lines.
Method1(full_page_text) == IF full_page_text = "thought" THEN "Hi" ELSE ""

\* Method 2: 'if prose_text:' and the filtered lines of the prose area.
Method2(prose_text) == IF prose_text \in {None, ""} THEN "" ELSE prose_text

\* 'if final_text:'
FinalTruthy(v) == v \notin {None, ""}

\* "except Exception: pass": nothing thrown in the body leaves the loop.
Caught(at) == TRUE

WaitTickRaw ==
    /\ w_pc = "polling"
    /\ LoopContinues(elapsed)
    /\ \E po \in PageOutcomes, go \in GenOutcomes, tm \in RawThinkingMatches,
          fo \in FullOutcomes :
          LET page_text      == OrEmpty(cdp_eval(po))
              g              == cdp_eval(go)
              full_page_text == OrEmpty(cdp_eval(fo))
              early == IF RaisesOnNone(page_text) THEN "page_text"
                       ELSE IF RaisesOnNone(full_page_text) THEN "full_page_text"
                       ELSE None
              m1 == IF early = None THEN Method1(full_page_text) ELSE ""
          IN
          \E pr \in IF early = None /\ m1 = "" THEN ProseOutcomes ELSE {"unread"} :
             LET text == IF early # None THEN ""
                         ELSE IF m1 # "" THEN m1 ELSE Method2(OrEmpty(cdp_eval(pr)))
                 stable == ReturnsStable(stable_count, last_text, text, g)
                 reads_final == early = None /\ text # "" /\ ~IsGenerating(g)
                                    /\ ~stable
             IN
             \E fi \in IF reads_final THEN FinalOutcomes ELSE {"unread"} :
                LET final == cdp_eval(fi)
                    at == IF early # None THEN early
                          ELSE IF reads_final /\ FinalTruthy(final)
                                  /\ StripRaises(final) THEN "final_text"
                          ELSE None
                IN
                /\ w_threw' = at
                /\ tickNulls' =
                      {c \in {"page_text"} : cdp_eval(po) = None}
                      \cup {c \in {"is_generating"} :
                               at # "page_text" /\ g = None}
                      \cup {c \in {"thinking_match"} :
                               at # "page_text" /\ tm = <<>>}
                      \cup {c \in {"full_page_text"} :
                               at # "page_text" /\ cdp_eval(fo) = None}
                      \cup {c \in {"prose_text"} :
                               pr # "unread" /\ cdp_eval(pr) = None}
                      \cup {c \in {"final_text"} :
                               fi # "unread" /\ final = None}
                /\ thinking_time' = IF at = "page_text" THEN thinking_time
                                    ELSE ThinkingAfter(thinking_time, tm)
                /\ stable_count' = StableAfter(stable_count, last_text, text, g)
                /\ last_text' = LastAfter(last_text, text, g)
                /\ IF at # None /\ ~Caught(at) THEN
                       /\ w_pc' = "raised"
                       /\ UNCHANGED <<w_exit, w_ret, elapsed>>
                   ELSE IF stable THEN
                       /\ w_pc' = "returned"
                       /\ w_exit' = "stable"
                       /\ w_ret' = <<Strip(text), thinking_time'>>
                       /\ UNCHANGED elapsed
                   ELSE IF at = None /\ ReturnsFinal(text, g, final) THEN
                       /\ w_pc' = "returned"
                       /\ w_exit' = "final"
                       /\ w_ret' = <<Strip(final), thinking_time'>>
                       /\ UNCHANGED elapsed
                   ELSE
                       /\ \E dt \in 0..MaxTickSeconds : elapsed' = elapsed + dt
                       /\ UNCHANGED <<w_pc, w_exit, w_ret>>
    /\ UNCHANGED <<ticks, tickText, tickGen, prevTickText, stableRun, tickPhrase>>

nullOthers == <<orchVars, streamVars, powVars, estVars, cookieVars, sessVars,
                concVars, opVars, upVars, msgVars>>

NextWaitNull ==
    \/ (WaitTickPhrase /\ tickNulls' = {} /\ w_threw' = None
            /\ UNCHANGED nullOthers)
    \/ (WaitTickRaw /\ UNCHANGED nullOthers)
    \/ (WaitTimeout /\ UNCHANGED <<nullVars, nullOthers>>)

SpecWaitNull == InitWait /\ [][NextWaitNull]_vars

\* The same clock and loop exit as in SpecWaitFair.
SpecWaitNullFair ==
    /\ SpecWaitNull
    /\ SF_vars(WaitTickRaw /\ elapsed' > elapsed /\ UNCHANGED nullOthers)
    /\ WF_vars(WaitTimeout /\ UNCHANGED <<nullVars, nullOthers>>)

(***************************************************************************)
(* SpecStream: one call of prompt_chatgpt_api.  The response's status and  *)
(* each line of its body are the inputs of the steps.                      *)
(***************************************************************************)
\* Bound of the model: the lines read from one response.
MaxStreamLen == 4

CurrentAcc ==
    Acc(response_text, result_conversation_id, api_thinking_time, "reading")

InitStream ==
    /\ mode = "auto"
    /\ flags = {}
    /\ OrchIdle
    /\ WaitIdle
    /\ AuxIdle
    /\ s_pc = "request"
    /\ s_status = 0
    /\ s_lines = <<>>
    /\ response_text = ""
    /\ conversation_id \in {None, "c0"}
    /\ result_conversation_id = conversation_id
    /\ api_thinking_time = 0
    /\ s_end = None
    /\ s_result = NoStreamResult

\* client.stream(...) and the status checks: the request raises before any
\* response, or a status arrives; 403 and the other non-200 statuses read
\* the body, which can raise as well.
StreamStatus ==
    /\ s_pc = "request"
    /\ \/ \E e \in {"timeout", "connect_error", "exception"} :
             /\ s_status' = 0
             /\ s_end' = e
             /\ s_pc' = "returned"
             /\ s_result' = StreamReturn(0, CurrentAcc, e)
       \/ \E st \in Statuses :
             /\ s_status' = st
             /\ IF st = 200 THEN
                    /\ s_pc' = "reading"
                    /\ UNCHANGED <<s_end, s_result>>
                ELSE
                    /\ s_pc' = "returned"
                    /\ \E e \in IF st \in {401, 429} THEN {"status"}
                                 ELSE {"status", "timeout", "exception"} :
                          /\ s_end' = e
                          /\ s_result' = StreamReturn(st, CurrentAcc, e)
    /\ UNCHANGED <<s_lines, response_text, result_conversation_id,
                   api_thinking_time, conversation_id>>

\* One pass of "async for line in resp.aiter_lines()".
StreamLine ==
    /\ s_pc = "reading"
    /\ Len(s_lines) < MaxStreamLen
    /\ \E line \in Lines :
          LET a == Consume(CurrentAcc, line) IN
          /\ s_lines' = Append(s_lines, line)
          /\ response_text' = a.response_text
          /\ result_conversation_id' = a.conversation_id
          /\ api_thinking_time' = a.thinking_time
          /\ IF a.outcome = "reading" THEN
                 /\ UNCHANGED <<s_pc, s_end, s_result>>
             ELSE
                 /\ s_pc' = "returned"
                 /\ s_end' = a.outcome
                 /\ s_result' = StreamReturn(s_status, a, a.outcome)
    /\ UNCHANGED <<s_status, conversation_id>>

\* The body ends without a terminator, or reading it raises.
StreamEnd ==
    /\ s_pc = "reading"
    /\ \E e \in {"eof", "timeout", "exception"} :
          /\ s_end' = e
          /\ s_result' = StreamReturn(s_status, CurrentAcc, e)
    /\ s_pc' = "returned"
    /\ UNCHANGED <<s_status, s_lines, response_text, result_conversation_id,
                   api_thinking_time, conversation_id>>

NextStream ==
    \/ (StreamStatus /\ UNCHANGED <<orchVars, waitVars, auxVars>>)
    \/ (StreamLine /\ UNCHANGED <<orchVars, waitVars, auxVars>>)
    \/ (StreamEnd /\ UNCHANGED <<orchVars, waitVars, auxVars>>)

SpecStream == InitStream /\ [][NextStream]_vars

(***************************************************************************)
(* SpecSolver: one call of solve_proof_of_work.  The difficulty and the    *)
(* hash are the inputs; each iteration of the loop is one step.            *)
(***************************************************************************)
InitSolver ==
    /\ CoreIdle
    /\ Aux2Idle
    /\ OrchIdle
    /\ WaitIdle
    /\ StreamIdle
    /\ EstIdle
    /\ CookieIdle
    /\ SessIdle
    /\ p_pc = "start"
    /\ p_difficulty \in Difficulties
    /\ digestOf \in [Payloads -> Digests]
    /\ target = <<>>
    /\ p_i = 0
    /\ candidates = <<>>
    /\ pow_token = NoToken

\* "target = bytes.fromhex(difficulty)" and what precedes the loop.
SolveStart ==
    /\ p_pc = "start"
    /\ IF FromHexRaises(p_difficulty) THEN
           /\ p_pc' = "raised"
           /\ UNCHANGED target
       ELSE
           /\ p_pc' = "loop"
           /\ target' = FromHex(p_difficulty)
    /\ UNCHANGED <<p_difficulty, digestOf, p_i, candidates, pow_token>>

\* One iteration of "for i in range(_POW_MAX_ITERATIONS)".
SolveIterate ==
    /\ p_pc = "loop"
    /\ p_i < POW_MAX_ITERATIONS
    /\ LET config_b64 == B64(Config(p_i))
       IN /\ candidates' = Append(candidates, config_b64)
          /\ IF Qualifies(digestOf[config_b64], target) THEN
                 /\ pow_token' = PowToken(config_b64)
                 /\ p_pc' = "returned"
                 /\ UNCHANGED p_i
             ELSE
                 /\ p_i' = p_i + 1
                 /\ UNCHANGED <<p_pc, pow_token>>
    /\ UNCHANGED <<p_difficulty, digestOf, target>>

\* The range is exhausted: "return None".
SolveExhausted ==
    /\ p_pc = "loop"
    /\ p_i = POW_MAX_ITERATIONS
    /\ p_pc' = "returned"
    /\ pow_token' = NoToken
    /\ UNCHANGED <<p_difficulty, digestOf, target, p_i, candidates>>

NextSolver ==
    \/ (SolveStart /\ UNCHANGED <<aux2Vars, orchVars, waitVars, streamVars, estVars, cookieVars, sessVars>>)
    \/ (SolveIterate /\ UNCHANGED <<aux2Vars, orchVars, waitVars, streamVars, estVars, cookieVars, sessVars>>)
    \/ (SolveExhausted /\ UNCHANGED <<aux2Vars, orchVars, waitVars, streamVars, estVars, cookieVars, sessVars>>)

SpecSolver == InitSolver /\ [][NextSolver]_vars

\* The solver is straight-line synchronous code: each step it can take is
\* taken.
SpecSolverFair == SpecSolver /\ WF_vars(NextSolver)

(***************************************************************************)
(* SpecTokens: the return of prompt_chatgpt_api after a stream that was    *)
(* read without an exception, for a prompt and an accumulated text.        *)
(***************************************************************************)
InitTokens ==
    /\ CoreIdle
    /\ Aux2Idle
    /\ OrchIdle
    /\ WaitIdle
    /\ StreamIdle
    /\ PowIdle
    /\ CookieIdle
    /\ SessIdle
    /\ t_pc = "start"
    /\ t_prompt \in Prompts
    /\ t_text \in StreamedTexts
    /\ t_success = FALSE
    /\ t_tokens = NoTokens

\* "if not response_text: return {failure}" and the success dict.
ReturnResult ==
    /\ t_pc = "start"
    /\ t_pc' = "returned"
    /\ IF t_text = "" THEN
           /\ t_success' = FALSE
           /\ t_tokens' = NoTokens
       ELSE
           /\ t_success' = TRUE
           /\ t_tokens' = Tokens(t_prompt, t_text)
    /\ UNCHANGED <<t_prompt, t_text>>

NextTokens ==
    ReturnResult
    /\ UNCHANGED <<aux2Vars, orchVars, waitVars, streamVars, powVars, cookieVars, sessVars>>

SpecTokens == InitTokens /\ [][NextTokens]_vars

(***************************************************************************)
(* SpecCookies: one extracted cookie list, made into the Cookie header of  *)
(* the fast path and injected into the browser of the automation path.     *)
(***************************************************************************)
InitCookies ==
    /\ CoreIdle
    /\ Aux2Idle
    /\ OrchIdle
    /\ WaitIdle
    /\ StreamIdle
    /\ PowIdle
    /\ EstIdle
    /\ SessIdle
    /\ c_pc = "header"
    /\ cookies \in CookieLists
    /\ cookie_header = ""
    /\ c_k = 1
    /\ set_cookies = <<>>
    /\ injected = 0

\* cookie_header = build_cookie_header(cookies)
BuildCookieHeader ==
    /\ c_pc = "header"
    /\ cookie_header' = build_cookie_header(cookies)
    /\ c_pc' = "inject"
    /\ UNCHANGED <<cookies, c_k, set_cookies, injected>>

\* One iteration of "for c in cookies": an empty cookie is skipped; the
\* others are sent, unless building or sending the parameter raises
\* ("except Exception: pass").
InjectCookie ==
    /\ c_pc = "inject"
    /\ c_k <= Len(cookies)
    /\ c_k' = c_k + 1
    /\ IF SkippedAtInjection(cookies[c_k]) THEN
           UNCHANGED <<set_cookies, injected>>
       ELSE
           \/ /\ set_cookies' = Append(set_cookies, cookies[c_k])
              /\ injected' = injected + 1
           \/ UNCHANGED <<set_cookies, injected>>
    /\ UNCHANGED <<c_pc, cookies, cookie_header>>

\* The loop has gone through the list.
InjectDone ==
    /\ c_pc = "inject"
    /\ c_k > Len(cookies)
    /\ c_pc' = "done"
    /\ UNCHANGED <<cookies, cookie_header, c_k, set_cookies, injected>>

NextCookies ==
    \/ (BuildCookieHeader /\ UNCHANGED <<aux2Vars, orchVars, waitVars, streamVars, powVars, estVars, sessVars>>)
    \/ (InjectCookie /\ UNCHANGED <<aux2Vars, orchVars, waitVars, streamVars, powVars, estVars, sessVars>>)
    \/ (InjectDone /\ UNCHANGED <<aux2Vars, orchVars, waitVars, streamVars, powVars, estVars, sessVars>>)

SpecCookies == InitCookies /\ [][NextCookies]_vars

(***************************************************************************)
(* SpecSessions: two runs of the automation path in two processes, their   *)
(* steps interleaved.                                                      *)
(***************************************************************************)
InitSessions ==
    /\ CoreIdle
    /\ Aux2Idle
    /\ OrchIdle
    /\ WaitIdle
    /\ StreamIdle
    /\ PowIdle
    /\ EstIdle
    /\ CookieIdle
    /\ sess_pc = [s \in Sessions |-> "profile"]
    /\ session_id \in [Sessions -> SessionIds]
    /\ browser_profile = [s \in Sessions |-> None]
    /\ locks \in [ProfileDirs -> {Free, Stale}]
    /\ removedLive = {}

\* "Determine browser profile directory"
ChooseProfile(s) ==
    /\ sess_pc[s] = "profile"
    /\ browser_profile' = [browser_profile EXCEPT ![s] = ProfileOf(session_id[s])]
    /\ sess_pc' = [sess_pc EXCEPT ![s] = "clean"]
    /\ UNCHANGED <<session_id, locks, removedLive>>

\* "clean_browser_locks()"
CleanLocks(s) ==
    /\ sess_pc[s] = "clean"
    /\ locks' = LocksAfterClean(locks)
    /\ removedLive' =
          removedLive \cup
          {o \in Sessions : sess_pc[o] = "running" /\ locks[browser_profile[o]] = o
                            /\ locks'[browser_profile[o]] # o}
    /\ sess_pc' = [sess_pc EXCEPT ![s] = "start"]
    /\ UNCHANGED <<session_id, browser_profile>>

\* "browser = await uc.start(user_data_dir=str(browser_profile), ...)": the
\* browser takes the directory's lock files, over a dead holder's as well;
\* if a running browser holds them the new one exits and uc.start raises.
StartBrowser(s) ==
    /\ sess_pc[s] = "start"
    /\ IF locks[browser_profile[s]] \in {Free, Stale} THEN
           /\ locks' = [locks EXCEPT ![browser_profile[s]] = s]
           /\ sess_pc' = [sess_pc EXCEPT ![s] = "running"]
       ELSE
           /\ sess_pc' = [sess_pc EXCEPT ![s] = "failed"]
           /\ UNCHANGED locks
    /\ UNCHANGED <<session_id, browser_profile, removedLive>>

\* "browser.stop()": the browser exits and removes the lock files it holds.
StopBrowser(s) ==
    /\ sess_pc[s] = "running"
    /\ sess_pc' = [sess_pc EXCEPT ![s] = "stopped"]
    /\ locks' = IF locks[browser_profile[s]] = s
                THEN [locks EXCEPT ![browser_profile[s]] = Free] ELSE locks
    /\ UNCHANGED <<session_id, browser_profile, removedLive>>

NextSessions ==
    \/ \E s \in Sessions :
          ChooseProfile(s) /\ UNCHANGED <<aux2Vars, orchVars, waitVars, streamVars, powVars, estVars, cookieVars>>
    \/ \E s \in Sessions :
          CleanLocks(s) /\ UNCHANGED <<aux2Vars, orchVars, waitVars, streamVars, powVars, estVars, cookieVars>>
    \/ \E s \in Sessions :
          StartBrowser(s) /\ UNCHANGED <<aux2Vars, orchVars, waitVars, streamVars, powVars, estVars, cookieVars>>
    \/ \E s \in Sessions :
          StopBrowser(s) /\ UNCHANGED <<aux2Vars, orchVars, waitVars, streamVars, powVars, estVars, cookieVars>>

SpecSessions == InitSessions /\ [][NextSessions]_vars

(***************************************************************************)
(* SpecConcurrent: two calls of chatgpt_api_prompt on one event loop.      *)
(* Each action is the stretch of one coroutine between two awaits.         *)
(***************************************************************************)
oldVars == <<orchVars, waitVars, streamVars, powVars, estVars, cookieVars,
             sessVars>>

concOthers == <<oldVars, nullVars, opVars, upVars, msgVars>>

OldIdle ==
    /\ CoreIdle
    /\ OrchIdle
    /\ WaitIdle
    /\ StreamIdle
    /\ PowIdle
    /\ EstIdle
    /\ CookieIdle
    /\ SessIdle

InitConcurrent ==
    /\ OldIdle
    /\ k_pc = [r \in Requests |-> "start"]
    /\ frame = [r \in Requests |-> NoLocals]
    /\ served = [r \in Requests |-> NoServed]
    /\ k_sent = [r \in Requests |-> NoHeaders]
    /\ k_result = [r \in Requests |-> NoStreamResult]
    /\ NullIdle
    /\ OpIdle
    /\ UpIdle
    /\ MsgIdle

\* Step 1 up to "await get_access_token(...)".
ConcStart(r) ==
    /\ k_pc[r] = "start"
    /\ \E c \in {"fail", "empty", "ok"} :
          /\ served' = [served EXCEPT ![r].cookies = c]
          /\ IF c = "ok" THEN
                 /\ k_pc' = [k_pc EXCEPT ![r] = "auth"]
                 /\ UNCHANGED k_result
             ELSE
                 /\ k_pc' = [k_pc EXCEPT ![r] = "returned"]
                 /\ k_result' =
                       [k_result EXCEPT ![r] =
                           ConcReturn(Failure(Err(IF c = "fail"
                                                  THEN "Cookie extraction failed"
                                                  ELSE "No ChatGPT cookies found",
                                                  0)))]
    /\ UNCHANGED <<frame, k_sent>>

\* The session request is answered: step 2 up to
\* "await get_chat_requirements(...)".
ConcAuth(r) ==
    /\ k_pc[r] = "auth"
    /\ \E resp \in AuthResponses :
          LET a == get_access_token(resp) IN
          /\ served' = [served EXCEPT ![r].auth = resp]
          /\ IF a.success THEN
                 /\ k_pc' = [k_pc EXCEPT ![r] = "req"]
                 /\ frame' = [frame EXCEPT
                                 ![FrameOf(r)].access_token = a.access_token]
                 /\ UNCHANGED k_result
             ELSE
                 /\ k_pc' = [k_pc EXCEPT ![r] = "returned"]
                 /\ k_result' = [k_result EXCEPT ![r] = ConcReturn(Failure(a.error))]
                 /\ UNCHANGED frame
    /\ UNCHANGED k_sent

\* The sentinel request is answered: steps 3, 3b (the solver is synchronous)
\* and the head of prompt_chatgpt_api up to "async with client.stream(...)".
ConcRequirements(r) ==
    /\ k_pc[r] = "req"
    /\ \E resp \in ConcRequirementsResponses :
          LET q  == get_chat_requirements(resp)
              rt == IF HasRequirementsToken(q) THEN q.token ELSE None
          IN  \E o \in IF NeedsPow(q) THEN SolveOutcomes(q.proofofwork)
                       ELSE {"not_run"} :
                 /\ served' = [served EXCEPT ![r].req = resp, ![r].solve = o]
                 /\ IF AfterSolve(o) = "crashed" THEN
                        /\ k_pc' = [k_pc EXCEPT ![r] = "raised"]
                        /\ frame' = [frame EXCEPT
                                        ![FrameOf(r)].requirements_token = rt,
                                        ![FrameOf(r)].proof_token = None]
                        /\ UNCHANGED k_sent
                    ELSE
                        LET pt == IF o = "not_run" THEN None ELSE o IN
                        /\ k_pc' = [k_pc EXCEPT ![r] = "status"]
                        /\ frame' = [frame EXCEPT
                                        ![FrameOf(r)].requirements_token = rt,
                                        ![FrameOf(r)].proof_token = pt,
                                        ![FrameOf(r)].acc =
                                            Acc("", None, 0, "reading")]
                        /\ k_sent' =
                              [k_sent EXCEPT ![r] =
                                  ConversationHeaders(
                                      frame[FrameOf(r)].access_token, rt, pt)]
    /\ UNCHANGED k_result

\* The conversation request raises or its status arrives.
ConcStatus(r) ==
    /\ k_pc[r] = "status"
    /\ \E st \in {0, 200, 403} :
          /\ served' = [served EXCEPT ![r].status = st,
                                      ![r].end = IF st = 0 THEN "timeout"
                                                 ELSE IF st = 403 THEN "status"
                                                 ELSE None]
          /\ IF st = 200 THEN
                 /\ k_pc' = [k_pc EXCEPT ![r] = "stream"]
                 /\ UNCHANGED k_result
             ELSE
                 /\ k_pc' = [k_pc EXCEPT ![r] = "returned"]
                 /\ k_result' =
                       [k_result EXCEPT ![r] =
                           WithCookiesUsed(
                               StreamReturn(st, frame[FrameOf(r)].acc,
                                            IF st = 0 THEN "timeout" ELSE "status"))]
    /\ UNCHANGED <<frame, k_sent>>

\* One pass of "async for line in resp.aiter_lines()".
ConcLine(r) ==
    /\ k_pc[r] = "stream"
    /\ Len(served[r].lines) < MaxConcLines
    /\ \E line \in ConcLines :
          LET a == Consume(frame[FrameOf(r)].acc, line) IN
          /\ served' = [served EXCEPT ![r].lines = Append(@, line)]
          /\ frame' = [frame EXCEPT ![FrameOf(r)].acc = a]
          /\ IF a.outcome = "reading" THEN UNCHANGED <<k_pc, k_result>>
             ELSE
                 /\ k_pc' = [k_pc EXCEPT ![r] = "returned"]
                 /\ k_result' =
                       [k_result EXCEPT ![r] =
                           WithCookiesUsed(StreamReturn(200, a, a.outcome))]
    /\ UNCHANGED k_sent

\* The body ends without a terminator, or the read times out.
ConcEnd(r) ==
    /\ k_pc[r] = "stream"
    /\ \E e \in {"eof", "timeout"} :
          /\ served' = [served EXCEPT ![r].end = e]
          /\ k_result' =
                [k_result EXCEPT ![r] =
                    WithCookiesUsed(StreamReturn(200, frame[FrameOf(r)].acc, e))]
    /\ k_pc' = [k_pc EXCEPT ![r] = "returned"]
    /\ UNCHANGED <<frame, k_sent>>

NextConcurrent ==
    \/ \E r \in Requests : ConcStart(r) /\ UNCHANGED concOthers
    \/ \E r \in Requests : ConcAuth(r) /\ UNCHANGED concOthers
    \/ \E r \in Requests : ConcRequirements(r) /\ UNCHANGED concOthers
    \/ \E r \in Requests : ConcStatus(r) /\ UNCHANGED concOthers
    \/ \E r \in Requests : ConcLine(r) /\ UNCHANGED concOthers
    \/ \E r \in Requests : ConcEnd(r) /\ UNCHANGED concOthers

SpecConcurrent == InitConcurrent /\ [][NextConcurrent]_vars

(***************************************************************************)
(* SpecOperation: one call of prompt_chatgpt.  Each action is one step of  *)
(* _setup_authenticated_browser or of the try block; what a collaborator   *)
(* answers (or that it raises) is the input of the step.                   *)
(***************************************************************************)
OperationFlags == {"files", "screenshot", "continue_chat"}

\* The steps of the try block after a setup that succeeded, in the order of
\* the code; the upload only with files.
UISteps(f) ==
    <<"navigate">> \o (IF "files" \in f THEN <<"upload">> ELSE <<>>)
        \o <<"input", "send", "wait">>

NextStepIgnoringFailure(step, outcome, f) ==
    CASE step = "navigate" -> IF "files" \in f THEN "upload" ELSE "input"
      [] step = "upload" -> "input"
      [] step = "input" -> "send"
      [] step = "send" -> "wait"
      [] OTHER -> "returned"

\* Where prompt_chatgpt goes after a step: every step that does not succeed
\* ends in a return (its own, or that of "except Exception").
NextStep(step, outcome, f) ==
    IF outcome # "ok" THEN "returned"
    ELSE CASE step = "navigate" -> IF "files" \in f THEN "upload" ELSE "input"
           [] step = "upload" -> "input"
           [] step = "input" -> "send"
           [] step = "send" -> "wait"
           [] OTHER -> "returned"

\* "if screenshot: await page.save_screenshot(screenshot)": not called,
\* done, or raising.
ScreenshotOutcomes(f) ==
    IF "screenshot" \in f THEN {"ok", "raise"} ELSE {"none"}

\* The messages of the failure returns of the try block.
StepError(step) ==
    CASE step = "navigate" -> "Chat not found in sidebar"
      [] step = "upload" -> "File upload failed"
      [] step = "input" -> "Could not find ChatGPT input field"
      [] step = "send" -> "Could not find send button"
      [] OTHER -> "exception"

\* What a step of the try block that did not succeed returns: the step's
\* failure dict, or the dict of "except Exception" when the step, or the
\* screenshot before its return, raised.
StepFailure(step, outcome, shot) ==
    IF outcome = "exception" \/ shot = "raise"
    THEN Failure(Err("exception", 0))
    ELSE Failure(Err(StepError(step), 0))

\* "finally: if browser: browser.stop()" and the browser.stop() of the
\* "not is_auth" branch.
Stop(b) == IF b = "running" THEN "stopped" ELSE b

opOthers == <<orchVars, waitVars, streamVars, powVars, estVars, cookieVars,
              sessVars, concVars, nullVars, upVars, msgVars>>

InitOperation ==
    /\ OldIdle
    /\ ConcIdle
    /\ NullIdle
    /\ UpIdle
    /\ MsgIdle
    /\ o_pc = "cookies"
    /\ o_flags \in SUBSET OperationFlags
    /\ o_browser = "none"
    /\ o_steps = <<>>
    /\ o_failed = None
    /\ o_result = NoResult

\* _setup_authenticated_browser: the cookies.
OpCookies ==
    /\ o_pc = "cookies"
    /\ o_steps' = Append(o_steps, "setup")
    /\ \E c \in {"fail", "empty", "ok"} :
          IF c = "ok" THEN
              /\ o_pc' = "launch"
              /\ UNCHANGED <<o_failed, o_result>>
          ELSE
              /\ o_pc' = "returned"
              /\ o_failed' = "setup"
              /\ o_result' = Failure(Err(IF c = "fail"
                                         THEN "Cookie extraction failed"
                                         ELSE "No ChatGPT cookies found", 0))
    /\ UNCHANGED <<o_flags, o_browser>>

\* "browser = await uc.start(...)"
OpLaunch ==
    /\ o_pc = "launch"
    /\ \E o \in {"ok", "raise"} :
          IF o = "ok" THEN
              /\ o_pc' = "get"
              /\ o_browser' = "running"
              /\ UNCHANGED o_failed
          ELSE
              /\ o_pc' = "raised"
              /\ o_failed' = "setup"
              /\ UNCHANGED o_browser
    /\ UNCHANGED <<o_flags, o_steps, o_result>>

\* The two "page = await browser.get(CHATGPT_URL)" with the injection loop
\* between them (whose exceptions are swallowed): nothing in setup catches
\* what browser.get or page.sleep raises.
OpGet ==
    /\ o_pc = "get"
    /\ \E o \in {"ok", "raise"} :
          IF o = "ok" THEN
              /\ o_pc' = "auth"
              /\ UNCHANGED o_failed
          ELSE
              /\ o_pc' = "raised"
              /\ o_failed' = "setup"
    /\ UNCHANGED <<o_flags, o_browser, o_steps, o_result>>

\* check_auth_status and what follows it in setup.
OpAuth ==
    /\ o_pc = "auth"
    /\ \E a \in {"auth", "not_auth"} :
          IF a = "auth" THEN
              /\ o_pc' = "navigate"
              /\ UNCHANGED <<o_browser, o_failed, o_result>>
          ELSE
              /\ o_failed' = "setup"
              /\ \E shot \in ScreenshotOutcomes(o_flags) :
                    IF shot = "raise" THEN
                        /\ o_pc' = "raised"
                        /\ UNCHANGED <<o_browser, o_result>>
                    ELSE
                        /\ o_pc' = "returned"
                        /\ o_browser' = Stop(o_browser)
                        /\ o_result' = Failure(Err("Not authenticated", 0))
    /\ UNCHANGED <<o_flags, o_steps>>

\* A step of the try block that returns True / a success dict, returns
\* False / a failure dict, or raises: the navigation (which can only fail
\* with --continue-chat or --project), _upload_attachments, input_prompt and
\* send_prompt.
OpUI(step) ==
    /\ o_pc = step
    /\ o_steps' = Append(o_steps, step)
    /\ \E o \in IF step = "navigate" /\ "continue_chat" \notin o_flags
                THEN {"ok", "exception"} ELSE {"ok", "fail", "exception"} :
          /\ o_pc' = NextStep(step, o, o_flags)
          /\ IF o = "ok" THEN UNCHANGED <<o_failed, o_result, o_browser>>
             ELSE
                 /\ o_failed' = step
                 /\ IF o_pc' = "returned" THEN
                        /\ \E shot \in IF o = "fail" /\ step # "navigate"
                                        THEN ScreenshotOutcomes(o_flags)
                                        ELSE {"none"} :
                              o_result' = StepFailure(step, o, shot)
                        /\ o_browser' = Stop(o_browser)
                    ELSE UNCHANGED <<o_result, o_browser>>
    /\ UNCHANGED o_flags

\* wait_for_response and the result built from what it returns.
OpWait ==
    /\ o_pc = "wait"
    /\ o_steps' = Append(o_steps, "wait")
    /\ \/ \E ret \in WaitReturns, shot \in ScreenshotOutcomes(o_flags) :
             /\ o_result' = IF shot = "raise" THEN Failure(Err("exception", 0))
                            ELSE BrowserResultOf(ret)
             /\ o_failed' = IF o_result'.success THEN None ELSE "wait"
       \/ /\ o_result' = Failure(Err("exception", 0))
          /\ o_failed' = "wait"
    /\ o_pc' = "returned"
    /\ o_browser' = Stop(o_browser)
    /\ UNCHANGED o_flags

NextOperation ==
    \/ (OpCookies /\ UNCHANGED opOthers)
    \/ (OpLaunch /\ UNCHANGED opOthers)
    \/ (OpGet /\ UNCHANGED opOthers)
    \/ (OpAuth /\ UNCHANGED opOthers)
    \/ (OpUI("navigate") /\ UNCHANGED opOthers)
    \/ (OpUI("upload") /\ UNCHANGED opOthers)
    \/ (OpUI("input") /\ UNCHANGED opOthers)
    \/ (OpUI("send") /\ UNCHANGED opOthers)
    \/ (OpWait /\ UNCHANGED opOthers)

SpecOperation == InitOperation /\ [][NextOperation]_vars

(***************************************************************************)
(* SpecUpload: one call of _upload_attachments with the runs of its event  *)
(* handler.  The handler runs as a task of its own for every event and is  *)
(* interleaved with the coroutine at the awaits.                           *)
(***************************************************************************)
upOthers == <<orchVars, waitVars, streamVars, powVars, estVars, cookieVars,
              sessVars, concVars, nullVars, opVars, msgVars>>

InitUpload ==
    /\ OldIdle
    /\ ConcIdle
    /\ NullIdle
    /\ OpIdle
    /\ MsgIdle
    /\ u_pc = "start"
    /\ u_future = "pending"
    /\ u_hpc = [e \in Events |-> "idle"]
    /\ u_intercept = FALSE
    /\ u_registered = FALSE
    /\ u_setOnDone = FALSE
    /\ u_observed = 0
    /\ u_handled = None
    /\ u_cleanup = None
    /\ u_result = NoResult

\* The returns before the try: no paths, or paths that do not exist.
UpStart ==
    /\ u_pc = "start"
    /\ \E o \in {"no_files", "missing", "ok"} :
          IF o = "ok" THEN
              /\ u_pc' = "register"
              /\ UNCHANGED u_result
          ELSE
              /\ u_pc' = "returned"
              /\ u_result' = IF o = "no_files" THEN UploadSuccess
                             ELSE UploadFailure("File(s) not found")
    /\ UNCHANGED <<u_future, u_hpc, u_intercept, u_registered, u_setOnDone,
                   u_observed, u_handled, u_cleanup>>

\* "page.add_handler(cdp.page.FileChooserOpened, _on_file_chooser)"
UpRegister ==
    /\ u_pc = "register"
    /\ u_registered' = TRUE
    /\ u_pc' = "enable"
    /\ UNCHANGED <<u_future, u_hpc, u_intercept, u_setOnDone, u_observed,
                   u_handled, u_cleanup, u_result>>

\* "await page.send(set_intercept_file_chooser_dialog(enabled=True))"
UpEnable ==
    /\ u_pc = "enable"
    /\ \E o \in {"ok", "raise"} :
          IF o = "ok" THEN
              /\ u_intercept' = TRUE
              /\ u_pc' = "keys"
              /\ UNCHANGED u_result
          ELSE
              /\ u_pc' = "cleanup"
              /\ u_result' = UploadFailure("File upload failed")
              /\ UNCHANGED u_intercept
    /\ UNCHANGED <<u_future, u_hpc, u_registered, u_setOnDone, u_observed,
                   u_handled, u_cleanup>>

\* The key events of the shortcut with the sleep between them.
UpKeys ==
    /\ u_pc = "keys"
    /\ \E o \in {"ok", "raise"} :
          IF o = "ok" THEN
              /\ u_pc' = "waiting"
              /\ UNCHANGED u_result
          ELSE
              /\ u_pc' = "cleanup"
              /\ u_result' = UploadFailure("File upload failed")
    /\ UNCHANGED <<u_future, u_hpc, u_intercept, u_registered, u_setOnDone,
                   u_observed, u_handled, u_cleanup>>

\* "handled = await asyncio.wait_for(chooser_future, timeout=10.0)" with a
\* result on the future.
UpWaitDone ==
    /\ u_pc = "waiting"
    /\ u_future \in {"true", "false"}
    /\ u_observed' = u_observed + 1
    /\ u_handled' = u_future
    /\ IF u_future = "true" THEN
           /\ u_pc' = "processing"
           /\ UNCHANGED u_result
       ELSE
           /\ u_pc' = "cleanup"
           /\ u_result' = UploadFailure("File chooser was not triggered or could not be handled")
    /\ UNCHANGED <<u_future, u_hpc, u_intercept, u_registered, u_setOnDone,
                   u_cleanup>>

\* The ten seconds pass while the future is pending: wait_for cancels the
\* future and raises TimeoutError; "handled = False".
UpTimeout ==
    /\ u_pc = "waiting"
    /\ u_future = "pending"
    /\ u_future' = "cancelled"
    /\ u_observed' = u_observed + 1
    /\ u_handled' = "false"
    /\ u_pc' = "cleanup"
    /\ u_result' = UploadFailure("File chooser was not triggered or could not be handled")
    /\ UNCHANGED <<u_hpc, u_intercept, u_registered, u_setOnDone, u_cleanup>>

\* Step 4: the sleep and the look at the attachment indicators.
UpProcess ==
    /\ u_pc = "processing"
    /\ \E o \in {"ok", "raise"} :
          u_result' = IF o = "ok" THEN UploadSuccess
                      ELSE UploadFailure("File upload failed")
    /\ u_pc' = "cleanup"
    /\ UNCHANGED <<u_future, u_hpc, u_intercept, u_registered, u_setOnDone,
                   u_observed, u_handled, u_cleanup>>

\* finally: the disabling command, then the removal of the handler.
UpFinally ==
    /\ u_pc = "cleanup"
    /\ \E o \in {"ok", "raise"} :
          /\ u_cleanup' = o
          /\ u_intercept' = InterceptAfterFinally(u_intercept, o)
    /\ u_registered' = RegisteredAfterFinally(u_registered)
    /\ u_pc' = "returned"
    /\ UNCHANGED <<u_future, u_hpc, u_setOnDone, u_observed, u_handled,
                   u_result>>

\* The page emits FileChooserOpened (it does so only while it intercepts)
\* and the registered handler is started for it.
HandlerStart(e) ==
    /\ u_registered
    /\ u_intercept
    /\ u_hpc[e] = "idle"
    /\ u_hpc' = [u_hpc EXCEPT ![e] = "disabling"]
    /\ UNCHANGED <<u_pc, u_future, u_intercept, u_registered, u_setOnDone,
                   u_observed, u_handled, u_cleanup, u_result>>

\* _on_file_chooser: "await page.send(set_intercept...(enabled=False))";
\* an exception goes to the handler's except clause.
HandlerDisable(e) ==
    /\ u_hpc[e] = "disabling"
    /\ \E o \in {"ok", "raise"} :
          IF o = "ok" THEN
              /\ u_intercept' = FALSE
              /\ u_hpc' = [u_hpc EXCEPT ![e] = "setting"]
              /\ UNCHANGED <<u_future, u_setOnDone>>
          ELSE
              /\ u_hpc' = [u_hpc EXCEPT ![e] = "done"]
              /\ u_future' = FutureAfterSet(u_future, "false")
              /\ u_setOnDone' = (u_setOnDone \/ InvalidState(u_future))
              /\ UNCHANGED u_intercept
    /\ UNCHANGED <<u_pc, u_registered, u_observed, u_handled, u_cleanup,
                   u_result>>

\* _on_file_chooser: "await page.send(cdp.dom.set_file_input_files(...))"
\* and the set_result that follows it, in the try or in the except clause.
HandlerSetFiles(e) ==
    /\ u_hpc[e] = "setting"
    /\ \E o \in {"ok", "raise"} :
          u_future' = FutureAfterSet(u_future, IF o = "ok" THEN "true" ELSE "false")
    /\ u_setOnDone' = (u_setOnDone \/ InvalidState(u_future))
    /\ u_hpc' = [u_hpc EXCEPT ![e] = "done"]
    /\ UNCHANGED <<u_pc, u_intercept, u_registered, u_observed, u_handled,
                   u_cleanup, u_result>>

NextUpload ==
    \/ (UpStart /\ UNCHANGED upOthers)
    \/ (UpRegister /\ UNCHANGED upOthers)
    \/ (UpEnable /\ UNCHANGED upOthers)
    \/ (UpKeys /\ UNCHANGED upOthers)
    \/ (UpWaitDone /\ UNCHANGED upOthers)
    \/ (UpTimeout /\ UNCHANGED upOthers)
    \/ (UpProcess /\ UNCHANGED upOthers)
    \/ (UpFinally /\ UNCHANGED upOthers)
    \/ \E e \in Events : HandlerStart(e) /\ UNCHANGED upOthers
    \/ \E e \in Events : HandlerDisable(e) /\ UNCHANGED upOthers
    \/ \E e \in Events : HandlerSetFiles(e) /\ UNCHANGED upOthers

SpecUpload == InitUpload /\ [][NextUpload]_vars

(***************************************************************************)
(* SpecClean: the cleaning loop of get_chatgpt_chat on one message, and    *)
(* the same cleaning on its own output.                                    *)
(***************************************************************************)
msgOthers == <<oldVars, concVars, nullVars, opVars, upVars>>

InitClean ==
    /\ OldIdle
    /\ ConcIdle
    /\ NullIdle
    /\ OpIdle
    /\ UpIdle
    /\ m_pc = "extracted"
    /\ m_role \in {"assistant", "user"}
    /\ m_raw \in RawTexts
    /\ m_text = <<>>
    /\ m_again = <<>>

\* One turn of "for i, msg in enumerate(final_messages)".
CleanMessage ==
    /\ m_pc = "extracted"
    /\ m_text' = CleanText(m_role, m_raw)
    /\ m_pc' = "cleaned"
    /\ UNCHANGED <<m_role, m_raw, m_again>>

\* The cleaned text as the text of a message that is cleaned.
CleanAgain ==
    /\ m_pc = "cleaned"
    /\ m_again' = CleanText(m_role, m_text)
    /\ m_pc' = "again"
    /\ UNCHANGED <<m_role, m_raw, m_text>>

NextClean ==
    \/ (CleanMessage /\ UNCHANGED msgOthers)
    \/ (CleanAgain /\ UNCHANGED msgOthers)

SpecClean == InitClean /\ [][NextClean]_vars

(***************************************************************************)
(* Properties of Spec                                                      *)
(***************************************************************************)
ApiPositions ==
    {"api_cookies", "api_auth", "api_req", "api_pow", "api_conv", "api_returned"}

BrowserPositions == {"browser", "browser_ui", "browser_wait", "browser_returned"}

FastPathChain == <<GET_SESSION, POST_REQUIREMENTS, POST_CONVERSATION>>

IsPrefix(s, t) == Len(s) <= Len(t) /\ SubSeq(t, 1, Len(s)) = s

Sent(request) == \E i \in 1..Len(http) : http[i] = request

Times(request) == Cardinality({i \in 1..Len(http) : http[i] = request})

NeedsBrowser == flags \cap BrowserOnlyFlags # {}

\* C1: the fast path is attempted only under mode api or auto for a request
\* that uses no browser-only option; a request that uses one never starts the
\* fast path or sends a fast-path request, under any mode, and is answered by
\* the automation path.
C1_FastPathOnlyWhenEligible ==
    /\ (apiCalls > 0 \/ http # <<>> \/ pc \in ApiPositions)
          => (mode \in {"api", "auto"} /\ ~NeedsBrowser)
    /\ NeedsBrowser =>
          /\ apiCalls = 0
          /\ http = <<>>
          /\ pc \notin ApiPositions
          /\ pc = "done" => (browserRuns = 1 /\ result = browserResult)

C1_Witness ==
    /\ mode = "auto"
    /\ "files" \in flags
    /\ pc = "done"
    /\ browserRuns = 1
    /\ browserLaunched = 1
    /\ http = <<>>

\* C2: in auto mode, once the fast path has returned a failure the run calls
\* prompt_chatgpt exactly once, calls chatgpt_api_prompt no second time, sends
\* no fast-path request twice, and ends with prompt_chatgpt's result.
C2_AutoFallbackOnce ==
    (mode = "auto" /\ apiResult # NoResult /\ ~apiResult.success) =>
        /\ apiCalls = 1
        /\ IsPrefix(http, FastPathChain)
        /\ pc \in {"api_returned"} \cup BrowserPositions \cup {"done", "crashed"}
        /\ pc = "api_returned" => browserRuns = 0
        /\ pc \in {"browser_ui", "browser_wait", "browser_returned", "done", "crashed"}
              => browserRuns = 1
        /\ pc = "done" => (result = browserResult /\ browserResult # NoResult)

C2_Witness ==
    /\ mode = "auto"
    /\ pc = "done"
    /\ apiResult = Failure(Err("Auth session returned", 401))
    /\ http = <<GET_SESSION>>
    /\ browserRuns = 1
    /\ result = browserResult
    /\ result.success

\* C3: in api mode with an eligible request the automation path is never
\* called and no browser is started, whatever the fast path returns, and the
\* run ends with exactly what chatgpt_api_prompt returned; while the fast
\* path is running (any mode) nothing has started the automation path.
C3_ForcedApiSurfacesFailure ==
    /\ (mode = "api" /\ ~NeedsBrowser) =>
          /\ browserRuns = 0
          /\ browserLaunched = 0
          /\ pc \notin BrowserPositions
          /\ pc = "done" => (result = apiResult /\ apiCalls = 1)
    /\ pc \in ApiPositions => (browserRuns = 0 /\ browserLaunched = 0)

C3_Witness ==
    /\ mode = "api"
    /\ pc = "done"
    /\ ~result.success
    /\ result.status_code = 403
    /\ result = apiResult
    /\ browserLaunched = 0

\* C4 (as claimed): an ineligible request under mode api ends with an error
\* before any network activity: no HTTP request and no browser.
C4_IneligibleApiIsConfigError ==
    (mode = "api" /\ NeedsBrowser) =>
        /\ http = <<>>
        /\ browserRuns = 0
        /\ browserLaunched = 0
        /\ pc = "done" => ~result.success

\* C4 (amended): an ineligible request under mode api sends no fast-path
\* request and never calls chatgpt_api_prompt; main() logs the warning and
\* answers through the automation path, whose result is the final result.
C4_IneligibleApiUsesBrowser ==
    (mode = "api" /\ NeedsBrowser /\ pc # "start") =>
        /\ warned
        /\ http = <<>>
        /\ apiCalls = 0
        /\ pc \notin ApiPositions
        /\ pc \in {"browser_ui", "browser_wait", "browser_returned", "done", "crashed"}
              => browserRuns = 1
        /\ pc = "done" => result = browserResult

C4_Witness ==
    /\ mode = "api"
    /\ "files" \in flags
    /\ pc = "done"
    /\ warned
    /\ browserLaunched = 1
    /\ promptSent = <<"ui">>
    /\ result.success

C6_NoRetries ==
    /\ IsPrefix(http, FastPathChain)
    /\ apiCalls <= 1
    /\ solverCalls <= 1
    /\ browserRuns <= 1
    /\ browserLaunched <= 1
    /\ promptSent \in {<<>>, <<"api">>, <<"ui">>, <<"api", "ui">>}
    /\ (apiCalls = 1 /\ browserRuns = 1) =>
          (mode = "auto" /\ apiResult # NoResult /\ ~apiResult.success)

C6_Witness ==
    /\ pc = "done"
    /\ http = FastPathChain
    /\ promptSent = <<"api", "ui">>
    /\ apiCalls = 1
    /\ browserRuns = 1

\* C7 (as claimed): after a 429 on the conversation request the final result
\* is the failure flagged rate_limited and the prompt has been submitted
\* once only.
C7_RateLimitSurfacedNotRetried ==
    (convStatus = 429 /\ pc = "done") =>
        /\ ~result.success
        /\ result.rate_limited
        /\ promptSent = <<"api">>

\* C7 (amended): a 429 on the conversation request makes the fast path
\* return a failure flagged rate_limited, and the conversation request is
\* not sent again.  Under mode api that flagged failure is the final result
\* and the prompt was submitted once.  Under mode auto it triggers, like any
\* fast-path failure, the one automation-path fallback, which may submit the
\* prompt once more through the UI and whose result is the final result.
C7_RateLimitFlaggedThenModePolicy ==
    convStatus = 429 =>
        /\ ~apiResult.success
        /\ apiResult.rate_limited
        /\ apiResult.status_code = 429
        /\ Times(POST_CONVERSATION) = 1
        /\ apiCalls = 1
        /\ mode = "api" =>
              /\ promptSent = <<"api">>
              /\ browserRuns = 0
              /\ pc = "done" => result = apiResult
        /\ mode = "auto" =>
              /\ promptSent \in {<<"api">>, <<"api", "ui">>}
              /\ browserRuns <= 1
              /\ pc = "done" => (browserRuns = 1 /\ result = browserResult)

C7_Witness ==
    /\ convStatus = 429
    /\ mode = "auto"
    /\ pc = "done"
    /\ apiResult.rate_limited
    /\ promptSent = <<"api", "ui">>
    /\ result.success

(***************************************************************************)
(* Properties of SpecWait                                                  *)
(***************************************************************************)
DeclaredDone == w_pc = "returned" /\ w_exit \in {"stable", "final"}

\* C8 (as claimed): completion is declared only at the iteration at which the
\* non-empty sampled text has been unchanged for 3 consecutive iterations
\* with the generating indicator off, and the text returned is that sampled
\* text.  (Stated for the iterations that read the indicator as false.)
C8_DoneOnlyAfterThreeStableTicks ==
    (DeclaredDone /\ tickGen = "False") =>
        /\ stableRun = STABILITY_THRESHOLD
        /\ w_ret[1] = tickText

\* C9: completion is never declared by an iteration whose generating
\* indicator is true.
C9_NeverDoneWhileGenerating == DeclaredDone => tickGen # "True"

C9_Witness ==
    /\ w_pc = "polling"
    /\ ticks >= STABILITY_THRESHOLD + 1
    /\ tickGen = "True"
    /\ tickText # ""
    /\ tickText = prevTickText
    /\ tickText = last_text

\* C10 (as claimed): after every iteration whose sampled text differs from
\* the previous iteration's (a change to or from the empty text included) or
\* whose generating indicator is true, stable_count is 0 and last_text is
\* the text just sampled.  (Stated for the iterations that read the
\* indicator as true or false.)
C10_ResetOnChangeOrGenerating ==
    (w_pc = "polling" /\ ticks > 0 /\ tickGen # None
        /\ (tickText # prevTickText \/ tickGen = "True")) =>
        /\ stable_count = 0
        /\ last_text = tickText

\* C11 (as claimed): within one call the running thinking time never
\* decreases from one iteration to the next.
C11_ThinkingTimeNeverDecreases == [][thinking_time' >= thinking_time]_vars

\* C12: an iteration whose page text holds a rate-limit phrase returns the
\* rate-limit marker, one that holds only the failure phrase returns the
\* error marker, and a text holding both returns the rate-limit marker; such
\* an iteration returns at once, leaves the stability state and the thinking
\* time as they were, declares no completion, and prompt_chatgpt makes a
\* failure of what it returns (flagged rate_limited for the first marker).
C12_PhraseRulesFirst ==
    [][tickPhrase' # "none" =>
          /\ w_pc' = "returned"
          /\ w_ret' = IF tickPhrase' \in {"rate limit", "both"}
                      THEN <<"", -1>> ELSE <<"", -2>>
          /\ w_exit' = IF tickPhrase' \in {"rate limit", "both"}
                       THEN "rate_limited" ELSE "error"
          /\ w_exit' \notin {"stable", "final"}
          /\ UNCHANGED <<last_text, stable_count, thinking_time, tickText,
                         tickGen>>
          /\ ~BrowserResultOf(w_ret').success
          /\ BrowserResultOf(w_ret').rate_limited
                = (tickPhrase' \in {"rate limit", "both"})]_vars

C12_Witness ==
    /\ tickPhrase = "both"
    /\ w_pc = "returned"
    /\ w_exit = "rate_limited"
    /\ last_text = "Hello"
    /\ tickText = "Hello"
    /\ tickGen = "False"
    /\ stable_count = STABILITY_THRESHOLD - 1

StreamReturned == s_pc = "returned"

LastLine == s_lines[Len(s_lines)]

\* A line that begins with the data marker.
IsDataLine(line) == line.prefix = "data: "

IsMalformedFrame(line) == IsDataLine(line) /\ line.kind = "malformed"

NotMalformedFrame(line) == ~IsMalformedFrame(line)

\* A frame that parses and whose first part is a text.
CarriesText(line) ==
    IsDataLine(line) /\ line.kind = "object" /\ line.message = "dict"
        /\ line.parts = "str"

\* A frame that parses to an object with a non-empty error field.
CarriesError(line) == IsDataLine(line) /\ line.kind = "object" /\ line.error # ""

\* The text of the last line of a sequence that carries one, "" if none does.
LastTextOf(lines) ==
    LET at == {i \in 1..Len(lines) : CarriesText(lines[i])}
    IN  IF at = {} THEN ""
        ELSE lines[CHOOSE i \in at : \A j \in at : j <= i].text

\* The loop over a whole sequence of lines, from the locals acc.
RECURSIVE Accumulate(_, _)
Accumulate(acc, lines) ==
    IF lines = <<>> \/ acc.outcome # "reading" THEN acc
    ELSE Accumulate(Consume(acc, Head(lines)), Tail(lines))

\* What the call returns for a 200 response whose body is lines and ends as
\* ending says when no line ends it before.
ResultOfStream(cid, lines, ending) ==
    LET a == Accumulate(Acc("", cid, 0, "reading"), lines)
    IN  StreamReturn(200, a, IF a.outcome = "reading" THEN ending ELSE a.outcome)

TimeoutFailure == Failure(Err("Timeout waiting for response", 0))

C15_LatestSnapshotSupersedes ==
    (StreamReturned /\ s_end = "done") =>
        /\ LastLine = Terminator
        /\ \A i \in 1..(Len(s_lines) - 1) : s_lines[i] # Terminator
        /\ s_result.res.success = (LastTextOf(s_lines) # "")
        /\ s_result.res.success => s_result.res.response = LastTextOf(s_lines)

C15_Witness ==
    /\ StreamReturned
    /\ s_lines = <<FrameAB, FrameA, Terminator>>
    /\ s_result.res.success
    /\ s_result.res.response = "A"

\* C16: frames of malformed JSON change nothing: whatever the lines read,
\* the call returns what it returns for the same lines with the malformed
\* frames left out; [FrameA, Malformed, Terminator] succeeds with FrameA's
\* text.
C16_MalformedFramesSkipped ==
    /\ (StreamReturned /\ s_status = 200) =>
          s_result = ResultOfStream(conversation_id,
                                    SelectSeq(s_lines, NotMalformedFrame), s_end)
    /\ (StreamReturned /\ s_lines = <<FrameA, Malformed, Terminator>>) =>
          (s_result.res.success /\ s_result.res.response = FrameA.text)
    /\ (s_lines # <<>> /\ IsMalformedFrame(LastLine)) =>
          s_end \notin {"done", "error", "raise"}

C16_Witness ==
    /\ StreamReturned
    /\ s_lines = <<FrameA, Malformed, Terminator>>
    /\ s_result.res.success
    /\ s_result.res.response = "A"

\* C17: lines without the data marker change nothing: whatever the lines
\* read, the call returns (success or failure, text, conversation id,
\* thinking time) what it returns for the data lines alone, in their order.
C17_UnmarkedLinesIgnored ==
    /\ (StreamReturned /\ s_status = 200) =>
          s_result = ResultOfStream(conversation_id,
                                    SelectSeq(s_lines, IsDataLine), s_end)
    /\ (s_lines # <<>> /\ ~IsDataLine(LastLine)) =>
          s_end \notin {"done", "error", "raise"}

C17_Witness ==
    /\ StreamReturned
    /\ s_lines = <<Bare("", "none"), FrameAB, Bare("data:", "terminator"),
                   Terminator>>
    /\ s_result.res.success
    /\ s_result.res.response = "AB"
    /\ s_result.thinking_time_seconds = 5

\* C18 (as claimed): a frame with a non-empty error field ends the call at
\* that frame with the "ChatGPT error" failure, whatever text there is.
C18_ErrorFrameGivesUpstreamError ==
    (s_lines # <<>> /\ CarriesError(LastLine)) =>
        /\ StreamReturned
        /\ s_result.res = Failure(Err("ChatGPT error", 0))

\* C19: a request ended by a transport timeout returns the success carrying
\* the accumulated text when that text is non-empty, and the timeout
\* failure when it is empty.
C19_TimeoutPartialOrFailure ==
    (StreamReturned /\ s_end = "timeout") =>
        IF response_text # ""
        THEN /\ s_result.res = ApiSuccess(response_text)
             /\ s_result.conversation_id = result_conversation_id
        ELSE /\ s_result.res = TimeoutFailure
             /\ s_result.conversation_id = None

C19_Witness ==
    /\ StreamReturned
    /\ s_end = "timeout"
    /\ s_lines = <<FrameA, FrameAB>>
    /\ s_result.res.success
    /\ s_result.res.response = "AB"

\* C20 (as claimed): the success returned after a timeout differs from the
\* success returned when the same frames are followed by the terminator.
C20_TruncatedIsDistinguishable ==
    (StreamReturned /\ s_end = "timeout" /\ s_result.res.success) =>
        s_result # StreamReturn(200, CurrentAcc, "done")


(***************************************************************************)
(* Properties of Spec: results, the challenge solver's place in the chain  *)
(***************************************************************************)
\* C21: every result with success = TRUE, of chatgpt_api_prompt, of
\* prompt_chatgpt and of main(), has a non-empty response text; a stream
\* that ended normally with no text accumulated gives the failure "Empty
\* response from API", and a wait_for_response that returned an empty text
\* gives a failure.
C21_SuccessHasText ==
    /\ \A r \in {apiResult, browserResult, result} :
          r.success => r.response \notin {"", None}
    /\ (convResp.status = 200 /\ convResp.end = "done" /\ convResp.text = "") =>
          /\ ~apiResult.success
          /\ apiResult.error = Err("Empty response from API", 0)
    /\ (waitReturn # NoWaitReturn /\ waitReturn[1] = "") => ~browserResult.success

C21_Witness ==
    /\ mode = "auto"
    /\ pc = "done"
    /\ convResp = [status |-> 200, text |-> "", end |-> "done"]
    /\ apiResult.error = Err("Empty response from API", 0)
    /\ waitReturn = <<"", 7>>
    /\ result = browserResult
    /\ ~result.success


\* The requirements response carried a challenge descriptor whose required
\* flag is set (get_chat_requirements hands the descriptor on unchanged).
FlaggedRequired ==
    req.success /\ req.proofofwork.kind = "dict" /\ req.proofofwork.required

Unsolved ==
    /\ solverCalls = 1
    /\ proof_token = None
    /\ pc # "api_pow"
    /\ ~(pc = "crashed" /\ browserRuns = 0)

\* C23: an unsolved challenge is not fatal: the conversation request is still
\* sent, with the requirements token and without a challenge-token header,
\* and chatgpt_api_prompt returns what the conversation request gives.
C23_UnsolvedNotFatal ==
    Unsolved =>
        /\ pc = "api_conv" \/ Sent(POST_CONVERSATION)
        /\ Sent(POST_CONVERSATION) =>
              /\ Times(POST_CONVERSATION) = 1
              /\ requirements_token # None
              /\ convHeaders = [requirements |-> requirements_token,
                                proof |-> None]
              /\ apiResult =
                    [prompt_chatgpt_api(convResp) EXCEPT !.cookies_used = TRUE]
              /\ (convResp.status = 200 /\ convResp.text # ""
                    /\ convResp.end \in {"done", "timeout"}) =>
                    (apiResult.success /\ apiResult.response = convResp.text)
              /\ (convResp.status = 403 /\ convResp.end = "done") =>
                    (~apiResult.success /\ apiResult.status_code = 403)

C23_Witness ==
    /\ mode = "api"
    /\ pc = "done"
    /\ FlaggedRequired
    /\ Unsolved
    /\ convHeaders = [requirements |-> "rt", proof |-> None]
    /\ convResp = [status |-> 200, text |-> "4", end |-> "done"]
    /\ result.success
    /\ result.response = "4"


\* C24: no fast-path component raises, whatever the server answers: a run
\* never ends by an exception of the fast path, and once chatgpt_api_prompt
\* has been left main() holds the result it returned.
C24_FastPathNeverRaises ==
    /\ pc = "crashed" => browserRuns > 0
    /\ (apiCalls = 1 /\ pc \notin ApiPositions \ {"api_returned"}) =>
          apiResult # NoResult


\* C28: every result main() ends with carries a tag naming the transport
\* that produced it: "api" for a result of chatgpt_api_prompt, "browser" for
\* a result of prompt_chatgpt, after an auto-mode fallback as well.
C28_ResultNamesTransport ==
    pc = "done" =>
        /\ result.mode # None
        /\ result.mode = (IF browserRuns = 0 THEN "api" ELSE "browser")

(***************************************************************************)
(* Properties of SpecSolver                                                *)
(***************************************************************************)
\* The hash prefix of what was hashed, of the difficulty's byte length, is
\* at most the difficulty.
PrefixLeq(hashed, tgt) == BytesLeq(Take(digestOf[hashed], Len(tgt)), tgt)

\* C25: a token returned by the solver is "gAAAAAB" followed by the encoding
\* of a candidate, and hashing that payload again gives a digest whose
\* prefix, of the decoded difficulty's length, is byte for byte at most the
\* decoded difficulty.
C25_TokenVerifies ==
    (p_pc = "returned" /\ pow_token # NoToken) =>
        /\ pow_token.prefix = "gAAAAAB"
        /\ pow_token.payload \in Payloads
        /\ ~FromHexRaises(p_difficulty)
        /\ PrefixLeq(pow_token.payload, FromHex(p_difficulty))

C25_Witness ==
    /\ p_pc = "returned"
    /\ pow_token.prefix = "gAAAAAB"
    /\ p_difficulty = <<"0", "f", "0", "0">>
    /\ digestOf[B64(Config(0))] = <<15, 240>>
    /\ digestOf[B64(Config(1))] = <<255, 255>>
    /\ digestOf[pow_token.payload] = <<0, 0>>
    /\ pow_token.payload = B64(Config(2))

AllFF(tgt) == tgt # <<>> /\ \A k \in 1..Len(tgt) : tgt[k] = 255

\* The candidates are i = 0, 1, 2, ... in order, with i in slot A and i >> 1
\* in slot B; none before the last qualifies; a token is the last one, which
\* qualifies; None comes after the ceiling's worth of candidates.
CandidatesInOrder ==
    /\ Len(candidates) <= POW_MAX_ITERATIONS
    /\ \A k \in 1..Len(candidates) :
          candidates[k] = B64([slot_a |-> k - 1, slot_b |-> (k - 1) \div 2])
    /\ \A k \in 1..(Len(candidates) - 1) : ~PrefixLeq(candidates[k], target)
    /\ p_pc = "loop" =>
          \A k \in 1..Len(candidates) : ~PrefixLeq(candidates[k], target)
    /\ (p_pc = "returned" /\ pow_token # NoToken) =>
          /\ candidates # <<>>
          /\ pow_token.payload = candidates[Len(candidates)]
          /\ PrefixLeq(candidates[Len(candidates)], target)
    /\ (p_pc = "returned" /\ pow_token = NoToken) =>
          /\ Len(candidates) = POW_MAX_ITERATIONS
          /\ \A k \in 1..Len(candidates) : ~PrefixLeq(candidates[k], target)
    /\ (p_pc = "returned" /\ AllFF(target)) =>
          (pow_token # NoToken /\ Len(candidates) = 1)

\* C26: the solver always terminates; it tries the candidates 0, 1, 2, ...
\* in ascending order, stops at the first that qualifies, reports unsolved
\* after the ceiling's worth of candidates, and for a difficulty of all 0xFF
\* bytes returns a token at the first candidate.
C26_SolverTerminates ==
    /\ []CandidatesInOrder
    /\ <>(p_pc \in {"returned", "raised"})

C26_Witness ==
    /\ p_pc = "returned"
    /\ pow_token = NoToken
    /\ Len(candidates) = POW_MAX_ITERATIONS
    /\ target = <<0>>


(***************************************************************************)
(* Properties of SpecTokens                                                *)
(***************************************************************************)
\* floor(n / 4), never below 1
FloorQuarterAtLeastOne(n) ==
    IF n < 4 THEN 1 ELSE CHOOSE q \in 1..n : 4 * q <= n /\ n < 4 * q + 4

\* C27: the token estimate of a successful fast-path result is, for the
\* prompt and the response each, max(1, floor(length / 4)), and total is
\* their sum; prompt "2+2" with response "4" gives 1, 1 and 2.
C27_TokenEstimate ==
    (t_pc = "returned" /\ t_success) =>
        /\ t_tokens.prompt = FloorQuarterAtLeastOne(Len(t_prompt))
        /\ t_tokens.response = FloorQuarterAtLeastOne(Len(t_text))
        /\ t_tokens.total = t_tokens.prompt + t_tokens.response
        /\ (t_prompt = "2+2" /\ t_text = "4") =>
              t_tokens = [response |-> 1, prompt |-> 1, total |-> 2]

C27_Witness ==
    /\ t_pc = "returned"
    /\ t_success
    /\ t_prompt = "2+2"
    /\ t_text = "4"
    /\ t_tokens = [response |-> 1, prompt |-> 1, total |-> 2]


(***************************************************************************)
(* Properties of SpecCookies                                               *)
(***************************************************************************)
NonEmptyCookie(c) == c.name \notin {None, ""} /\ c.value \notin {None, ""}

\* The header the claim describes, built from the front of the list: the
\* name=value pairs of the non-empty cookies, in order, "; " between them.
RECURSIVE HeaderOf(_, _)
HeaderOf(cs, sofar) ==
    IF cs = <<>> THEN sofar
    ELSE IF ~NonEmptyCookie(cs[1]) THEN HeaderOf(Tail(cs), sofar)
    ELSE HeaderOf(Tail(cs),
                  IF sofar = "" THEN cs[1].name \o "=" \o cs[1].value
                  ELSE sofar \o "; " \o cs[1].name \o "=" \o cs[1].value)

\* s is t with some elements left out.
RECURSIVE IsSubsequence(_, _)
IsSubsequence(a, b) ==
    IF a = <<>> THEN TRUE
    ELSE IF b = <<>> THEN FALSE
    ELSE IF a[1] = b[1] THEN IsSubsequence(Tail(a), Tail(b))
    ELSE IsSubsequence(a, Tail(b))

\* C29: build_cookie_header returns the name=value pairs of exactly the
\* cookies whose name and value are both non-empty, in input order, joined
\* with "; "; and no cookie with an empty name or value is injected into the
\* browser.
C29_EmptyCookiesExcluded ==
    /\ c_pc \in {"inject", "done"} => cookie_header = HeaderOf(cookies, "")
    /\ \A k \in 1..Len(set_cookies) : NonEmptyCookie(set_cookies[k])
    /\ IsSubsequence(set_cookies, cookies)
    /\ injected = Len(set_cookies)

C29_Witness ==
    /\ c_pc = "done"
    /\ cookies = <<Cookie("a", "1"), Cookie("", "1"), Cookie("b", "1")>>
    /\ cookie_header = "a=1; b=1"
    /\ set_cookies = <<Cookie("a", "1"), Cookie("b", "1")>>


(***************************************************************************)
(* Properties of SpecSessions                                              *)
(***************************************************************************)
\* C30: two sessions running at the same time never use the same browser
\* profile directory, and no session's start removes the lock files of a
\* profile directory that a running session is using.
C30_SessionsIsolated ==
    /\ \A a, b \in Sessions :
          (a # b /\ sess_pc[a] = "running" /\ sess_pc[b] = "running") =>
              browser_profile[a] # browser_profile[b]
    /\ removedLive = {}

(***************************************************************************)
(* Properties of SpecConcurrent                                            *)
(***************************************************************************)
\* The headers one request sends when it runs alone and is answered s.
AloneSent(s) ==
    LET a == get_access_token(s.auth)
        q == get_chat_requirements(s.req)
    IN  ConversationHeaders(
            a.access_token,
            IF q.success /\ q.token # None THEN q.token ELSE None,
            IF s.solve = "not_run" THEN None ELSE s.solve)

\* What one request returns when it runs alone and is answered s.
AloneResult(s) ==
    IF s.cookies = "fail" THEN
        ConcReturn(Failure(Err("Cookie extraction failed", 0)))
    ELSE IF s.cookies = "empty" THEN
        ConcReturn(Failure(Err("No ChatGPT cookies found", 0)))
    ELSE IF ~get_access_token(s.auth).success THEN
        ConcReturn(Failure(get_access_token(s.auth).error))
    ELSE IF s.status # 200 THEN
        WithCookiesUsed(StreamReturn(s.status, Acc("", None, 0, "reading"), s.end))
    ELSE WithCookiesUsed(ResultOfStream(None, s.lines, s.end))

\* C31: two fast-path requests running concurrently do not interfere: under
\* every interleaving of their steps, what each request sends and what it
\* returns (or that it raises) is what it would send and return running alone
\* against the same answers.
C31_NoInterference ==
    \A r \in Requests :
        /\ k_pc[r] \in {"status", "stream", "returned"} /\ served[r].req.status # 0
              => k_sent[r] = AloneSent(served[r])
        /\ k_pc[r] = "returned" => k_result[r] = AloneResult(served[r])
        /\ k_pc[r] = "raised" <=> served[r].solve = "raise"

C31_Witness ==
    /\ k_pc["r1"] = "returned"
    /\ k_result["r1"].res.success
    /\ k_result["r1"].res.response = "AB"
    /\ k_result["r1"].conversation_id = "c1"
    /\ k_pc["r2"] = "stream"
    /\ frame["r2"].acc.response_text = "A"
    /\ k_sent["r1"].proof = "gAAAAAB"
    /\ k_sent["r2"].proof = None

(***************************************************************************)
(* Properties of SpecWaitNull                                              *)
(***************************************************************************)
EvaluateCalls ==
    {"page_text", "is_generating", "thinking_match", "full_page_text",
     "prose_text", "final_text"}

\* C32: wait_for_response tolerates any evaluate call returning null:
\* whichever calls return None on whichever iterations, no exception arises
\* at a value that was None, no exception leaves the loop, the loop does not
\* go on for ever, and it ends with a (text, thinking) pair.
C32_NullTolerated ==
    /\ [](w_threw \notin tickNulls)
    /\ [](w_pc \in {"polling", "returned"})
    /\ [](tickNulls = EvaluateCalls \ {"final_text"} =>
            /\ w_threw = None
            /\ w_pc = "polling" \/ w_exit = "timeout")
    /\ [](w_pc = "returned" =>
            /\ Len(w_ret) = 2
            /\ w_ret[1] \in {"", "Hi", "Hello"}
            /\ w_ret[2] \in {-2, -1, 0, 3})
    /\ <>(w_pc = "returned")

C32_Witness ==
    /\ w_pc = "returned"
    /\ w_exit = "timeout"
    /\ tickNulls = {"page_text", "is_generating", "thinking_match",
                    "full_page_text", "prose_text"}
    /\ w_ret = <<"Hello", 3>>

\* A frame from which the loop reads the conversation id: it parses to an
\* object whose message is no null, and it names an id.
NamesConversation(line) ==
    /\ IsDataLine(line)
    /\ line.kind = "object"
    /\ line.message # "null"
    /\ line.conversation_id # None

\* The id of the first frame of lines that names one, None if none does.
FirstNamedId(lines) ==
    LET at == {i \in 1..Len(lines) : NamesConversation(lines[i])}
    IN  IF at = {} THEN None
        ELSE lines[CHOOSE i \in at : \A j \in at : i <= j].conversation_id

\* C33: the conversation identifier is captured once: it is the caller's
\* when the caller supplied one, otherwise that of the first frame read that
\* carries a non-empty id; once non-empty no later frame changes it; and a
\* success result carries it.
C33_ConversationIdCapturedOnce ==
    /\ result_conversation_id =
          IF conversation_id # None THEN conversation_id
          ELSE FirstNamedId(s_lines)
    /\ (StreamReturned /\ s_result.res.success) =>
          s_result.conversation_id = result_conversation_id

C33_Witness ==
    /\ StreamReturned
    /\ s_result.res.success
    /\ conversation_id = None
    /\ Len(s_lines) >= 3
    /\ s_lines[1] = FrameNoText
    /\ s_lines[2] = FrameA
    /\ s_lines[3] = FrameAB
    /\ s_result.conversation_id = "c1"
    /\ s_result.res.response = "AB"

\* A frame whose payload parses as JSON without having the expected shape:
\* a value that is no object, or an object whose message is null.
Shapeless(line) ==
    IsDataLine(line) /\ (line.kind = "non_object" \/
                         (line.kind = "object" /\ line.message = "null"))

\* The lines read, without the shapeless frames.
WithoutShapeless(lines) == SelectSeq(lines, LAMBDA l : ~Shapeless(l))

\* C34: after a 200 status a frame that parses as JSON but has no expected
\* shape is skipped like a malformed frame: reading goes on after it, and
\* the call returns what it would return had the frame not been sent, with
\* the text accumulated from the earlier frames.
C34_ShapelessFramesSkipped ==
    /\ (s_pc = "returned" /\ s_status = 200 /\ s_lines # <<>>) =>
          ~(Shapeless(LastLine) /\ s_end = "raise")
    /\ (s_pc = "returned" /\ s_status = 200 /\ s_end \in {"done", "eof"}) =>
          s_result = ResultOfStream(conversation_id, WithoutShapeless(s_lines),
                                    s_end)

(***************************************************************************)
(* Properties of SpecOperation                                             *)
(***************************************************************************)
OperationEnded == o_pc \in {"returned", "raised"}

\* C35: every browser started by _setup_authenticated_browser is stopped
\* on every path: once the operation has ended, by a return or by an
\* exception, inside setup or after it, no started browser is left running.
C35_BrowserAlwaysStopped == OperationEnded => o_browser # "running"

\* C38: the UI steps of prompt_chatgpt run in the fixed order setup,
\* navigation, upload (with files only), input, send, wait, and each runs
\* only if all earlier ones succeeded: no step is entered after one that
\* failed, wait_for_response runs only after a send that succeeded, and a
\* failed navigation, upload, input or send returns a failure result.
C38_StepsInOrder ==
    /\ IsPrefix(o_steps, <<"setup">> \o UISteps(o_flags))
    /\ o_failed # None =>
          /\ OperationEnded
          /\ o_steps[Len(o_steps)] = o_failed
    /\ o_failed \in {"navigate", "upload", "input", "send"} =>
          /\ o_pc = "returned"
          /\ ~o_result.success
          /\ o_result # NoResult
    /\ o_pc = "wait" =>
          /\ o_failed = None
          /\ o_steps[Len(o_steps)] = "send"

C38_Witness ==
    /\ o_pc = "returned"
    /\ "files" \in o_flags
    /\ o_failed = "upload"
    /\ o_steps = <<"setup", "navigate", "upload">>
    /\ o_result = Failure(Err("File upload failed", 0))
    /\ o_browser = "stopped"

(***************************************************************************)
(* Properties of SpecUpload                                                *)
(***************************************************************************)
\* C36: the file-chooser future of _upload_attachments is resolved once and
\* observed once.  Whatever the number and timing of the events, no result
\* is set on a future that is done, a done future never changes, the wait
\* is left once, with handled true exactly when the future holds True and
\* handled false when it holds False or was cancelled by the timeout, and
\* a call whose wait ended not handled returns a failure.
C36_FutureResolvedOnce ==
    /\ [](~u_setOnDone)
    /\ [][Done(u_future) => u_future' = u_future]_vars
    /\ [](u_observed <= 1)
    /\ []((u_handled # None) <=> (u_observed = 1))
    /\ [](u_handled = "true" => u_future = "true")
    /\ [](u_handled = "false" => u_future \in {"false", "cancelled"})
    /\ []((u_handled = "false" /\ u_pc = "returned") =>
             u_result = UploadFailure("File chooser was not triggered or could not be handled"))

\* A handler run that ends after the timeout cancelled the future.
C36_Witness ==
    /\ u_pc = "returned"
    /\ u_future = "cancelled"
    /\ u_observed = 1
    /\ \E e \in Events : u_hpc[e] = "done"

C40_TrailingLabelsRemoved ==
    /\ (m_pc \in {"cleaned", "again"} /\ m_role = "assistant") =>
          \A label \in UILabels : ~EndsWith(m_text, label)
    /\ m_pc = "again" => m_again = m_text

(***************************************************************************)
(* Properties of SpecSolver: the empty difficulty                          *)
(***************************************************************************)
\* C39: solve_proof_of_work with the empty difficulty string returns a
\* token at the first candidate (i = 0) whatever the hash gives: the empty
\* string decodes to no bytes without raising, the zero-length prefix
\* comparison holds, and the call never reports unsolved.
C39_EmptyDifficultySolvedAtOnce ==
    p_difficulty = <<>> =>
        /\ p_pc \in {"start", "loop", "returned"}
        /\ p_pc \in {"start", "loop"} => (p_i = 0 /\ candidates = <<>>)
        /\ p_pc = "returned" =>
              /\ pow_token = PowToken(B64(Config(0)))
              /\ candidates = <<B64(Config(0))>>
              /\ p_i = 0

\* The first candidate hashes to the largest digest and is returned.
C39_Witness ==
    /\ p_pc = "returned"
    /\ p_difficulty = <<>>
    /\ target = <<>>
    /\ digestOf[B64(Config(0))] = <<255, 255>>
    /\ pow_token = PowToken(B64(Config(0)))

=============================================================================
